---- MODULE Spec2Model ----
(***************************************************************************)
(* Model of the buncargo / devbunestra environment lifecycle controller    *)
(* (createDevEnvironment: start, stop, restart) and of the idle-shutdown   *)
(* watchdog / heartbeat protocol.                                          *)
(*                                                                         *)
(* The repository carries two generations of the facade:                   *)
(*   "modular"  src/environment/index.ts  (start relies on                 *)
(*              `docker compose up -d --wait` for health)                  *)
(*   "flat"     src/environment.ts        (start also polls                *)
(*              waitForAllServices after bring-up)                         *)
(* The variable impl selects which of the two start() bodies is run.       *)
(***************************************************************************)
EXTENDS Integers, Sequences, FiniteSets, TLC

\* ------------------------------------------------------------------------
\* Bounds
\* ------------------------------------------------------------------------
NumServices == 2
MaxUserMigrations == 1
MaxApps == 1
MaxAttempts == 2
MaxMonitors == 2
MaxTimers == 2
MaxSpawnCalls == 3
IdleTimeout == 3
MaxSignals == 1
MaxNameLen == 2
MaxEnvs == 2
MaxServerApps == 2
MaxLoads == 2
MaxLoadedEnvs == 2

\* Time is counted in units of 30 s.
HbInterval == 1
CheckInterval == 2

Services == 1..NumServices
Apps(c) == 1..c.nApps

\* The services that declare a health check; a service with healthCheck
\* false or undefined is never polled.  Services are interchangeable, so a
\* config is told apart by how many of them declare one.
HealthChecked(c) == 1..c.nHealthCheck

StartHooks == {"afterContainersReady", "beforeServers", "afterServers"}
Hooks == StartHooks \cup {"beforeStop"}

VARIABLES
    impl,        \* which generation of the facade is running
    cfg,         \* the DevConfig handed to createDevEnvironment
    op,          \* the facade operation in flight: none, start, stop, restart
    opts,        \* StartOptions / StopOptions of the call in flight
    pc,          \* position of the call in flight
    awaiting,    \* TRUE while a user hook invoked by the call has not settled
    log,         \* events of the call in flight, in order
    containers,  \* state of the compose stack: down or running
    passed,      \* services whose health check passed during the call in flight
    attempts,    \* waitForService: polls made so far, per service
    migResults,  \* exit codes of the migration commands executed so far
    spawned,     \* apps spawned by the call in flight, in spawn order
    ready,       \* apps whose readiness wait has resolved
    error        \* the error start()/stop() rejected with, or NoError

lifeVars == <<impl, cfg, op, opts, pc, awaiting, log, containers,
              passed, attempts, migResults, spawned, ready, error>>

VARIABLES
    hbFile,             \* heartbeat file: HbMissing, or the age of the
                        \* timestamp it holds (now - timestamp)
    pidFile,            \* watchdog PID file: 0 when missing, else the PID
    monitors,           \* state of each watchdog-runner process, by PID
    sleepLeft,          \* time left of each monitor's CHECK_INTERVAL sleep
    sigPending,         \* monitors with a SIGTERM sent and not yet handled
    heartbeatInterval,  \* module variable of watchdog.ts: timer id, 0 = null
    timerLeft,          \* per setInterval timer: time to next firing, -1 = none
    spawnCalls,         \* number of spawnWatchdog calls made
    lastCheck           \* "wait" when the most recent watchdog check found
                        \* no parseable heartbeat, "read" when it found
                        \* one, "none" before the first check

wdVars == <<hbFile, pidFile, monitors, sleepLeft, sigPending,
            heartbeatInterval, timerLeft, spawnCalls, lastCheck>>

VARIABLES
    cliPc,            \* position of runCli in interactive mode
    child,            \* the dev-server command spawned by runCommand
    tunnels,          \* the public tunnels held by runCli
    onSignalPending,  \* onSignal calls suspended at their await
    sigCount          \* SIGINT/SIGTERM received by the foreground process

cliVars == <<cliPc, child, tunnels, onSignalPending, sigCount>>

VARIABLES
    root,        \* the monorepo root: its directory name and, when its .git
                 \* is a worktree link file, the worktree name
    idOptions,   \* DevIdentityOptions: projectPrefix, suffix,
                 \* worktreeIsolation
    identity     \* the DevIdentity computed from them, or NoIdentity

idVars == <<root, idOptions, identity>>

VARIABLES
    devConfig,   \* the DevConfig as validateConfig and the facade read it
    envs,        \* the environment instances created, in creation order
    heap,        \* the publicUrls objects of the instances
    thrown,      \* the violations listed by the error createDevEnvironment
                 \* threw, empty when it did not throw
    steps,       \* what the first createDevEnvironment call executed
    envOut       \* the object returned by the latest buildEnvVars call

instVars == <<devConfig, envs, heap, thrown, steps, envOut>>

VARIABLES
    args,        \* the arguments runCli was called with
    targets,     \* the expose targets runCli resolved from them
    tunnelList,  \* the public tunnels runCli holds: name and public URL
    opened,      \* the tunnels the running startPublicTunnels call has
                 \* opened so far
    closedTunnels,
                 \* the names of the tunnels whose close() was called
    cliLog       \* the calls runCli has made on the environment and the
                 \* watchdog, in order

exposeVars == <<args, targets, tunnelList, opened, closedTunnels, cliLog>>

VARIABLES
    cachedEnv,   \* loader/cache.ts cachedEnv: 0 for null, else the number of
                 \* the environment instance it refers to
    loads,       \* the loadDevEnv calls: "free", or suspended at
                 \* `await import(configPath)` with or without reload
    envCount,    \* how many environment instances loadDevEnv has created
    loadOut,     \* how the latest loadDevEnv or getDevEnv call ended
    loadedSinceClear,
                 \* a loadDevEnv call completed successfully since the last
                 \* clearDevEnvCache
    served       \* the environments handed out since the last
                 \* clearDevEnvCache or reload: by the first successful
                 \* load and by the loadDevEnv calls without reload after it

loaderVars == <<cachedEnv, loads, envCount, loadOut, loadedSinceClear, served>>

facVars == <<idVars, instVars, exposeVars, loaderVars>>

vars == <<lifeVars, wdVars, cliVars, facVars>>

NoError == [kind |-> "none", who |-> {}]
NoOpts == [wait |-> TRUE, startServers |-> TRUE,
           skipSeed |-> FALSE, removeVolumes |-> FALSE]

Configs ==
    [prisma : BOOLEAN,
     nUser : 0..MaxUserMigrations,
     hooks : SUBSET Hooks,
     seed : {"none", "plain", "check"},
     nApps : 0..MaxApps,
     nHealthCheck : 0..NumServices]

\* The StartOptions a caller can pass.  An option that cannot make a
\* difference is left at its default: skipSeed exists in the modular facade
\* only and is read only when a seed is configured; startServers is read
\* together with the number of apps.
StartOpts(im, c) ==
    [wait : BOOLEAN,
     startServers : IF c.nApps > 0 THEN BOOLEAN ELSE {TRUE},
     skipSeed : IF im = "modular" /\ c.seed # "none" THEN BOOLEAN ELSE {FALSE},
     removeVolumes : {FALSE}]

StopOpts ==
    [wait : {TRUE}, startServers : {TRUE},
     skipSeed : {FALSE}, removeVolumes : BOOLEAN]

\* ------------------------------------------------------------------------
\* Pure helpers of start()
\* ------------------------------------------------------------------------

\* allMigrations: the implicit prisma entry first, then the user's entries in
\* declaration order.  The prisma migration is named 0, the user's 1, 2, ...
BuildMigrations(c) ==
    (IF c.prisma THEN <<0>> ELSE <<>>) \o [i \in 1..c.nUser |-> i]

\* The failure loop over migrationResults: index of the first result with a
\* non-zero exit code, 0 when there is none.
FirstFailure(results) ==
    IF \E i \in 1..Len(results) : results[i] # 0
    THEN CHOOSE i \in 1..Len(results) :
            /\ results[i] # 0
            /\ \A j \in 1..(i - 1) : results[j] = 0
    ELSE 0

\* Mutant of MigrationError: the loop keeps the last failure it meets.
MigrationErrorLast(all, results) ==
    [kind |-> "migration",
     who |-> {all[CHOOSE i \in 1..Len(results) :
                     /\ results[i] # 0
                     /\ \A j \in (i + 1)..Len(results) : results[j] = 0]}]

\* The names carried by the Error thrown from the failure loop.
MigrationError(all, results) ==
    [kind |-> "migration", who |-> {all[FirstFailure(results)]}]

\* Mutant of PhaseOrder: seeding placed before the afterContainersReady hook.
PhaseOrderSeedFirst ==
    <<"bringUp", "waitHealthy", "migrations", "seedCheck", "seed",
      "afterContainersReady", "beforeServers", "build", "spawn", "waitServers",
      "afterServers", "resolved">>

\* The order in which start() goes through its phases.
PhaseOrder ==
    <<"bringUp", "waitHealthy", "migrations", "afterContainersReady",
      "seedCheck", "seed", "beforeServers", "build", "spawn", "waitServers",
      "afterServers", "resolved">>

ServerPhase(c, o) == o.startServers /\ c.nApps > 0

\* The condition under which start() enters a phase.
PhaseEnabled(p, im, c, o) ==
    CASE p = "bringUp" -> TRUE
      [] p = "waitHealthy" -> im = "flat" /\ o.wait
      [] p = "migrations" -> Len(BuildMigrations(c)) > 0
      [] p = "afterContainersReady" -> "afterContainersReady" \in c.hooks
      [] p = "seedCheck" -> c.seed = "check" /\ ~o.skipSeed
      [] p = "seed" -> c.seed # "none" /\ ~o.skipSeed
      [] p = "beforeServers" -> ServerPhase(c, o) /\ "beforeServers" \in c.hooks
      [] p = "build" -> ServerPhase(c, o)
      [] p = "spawn" -> ServerPhase(c, o)
      [] p = "waitServers" -> ServerPhase(c, o)
      [] p = "afterServers" -> ServerPhase(c, o) /\ "afterServers" \in c.hooks
      [] OTHER -> TRUE

PhaseIndex(p) == CHOOSE i \in 1..Len(PhaseOrder) : PhaseOrder[i] = p

\* The phase start() enters once phase p has completed without throwing.
NextPhase(p, im, c, o) ==
    LET later == {i \in (PhaseIndex(p) + 1)..Len(PhaseOrder) :
                     PhaseEnabled(PhaseOrder[i], im, c, o)}
    IN PhaseOrder[CHOOSE i \in later : \A j \in later : i <= j]

Ev(phase, ev, who) == <<phase, ev, who>>

\* The heartbeat file does not exist (existsSync is false).
HbMissing == -1
\* The heartbeat file exists and cannot be read (readFileSync throws).
HbUnreadable == -2
\* The heartbeat file holds text that parseInt maps to NaN.
HbGarbage == -3

Pids == 1..MaxMonitors
Timers == 1..MaxTimers
MaxAge == IdleTimeout + 1
Ages == 0..MaxAge

\* ------------------------------------------------------------------------
\* Identity (core/ports.ts).  A string is the sequence of its character
\* codes, so that lower-casing, replacing and hashing act on characters.
\* ------------------------------------------------------------------------
Undefined == <<0>>
Null == <<0, 0>>
Truthy(s) == s \notin {Undefined, Null, <<>>}

\* a, Z, _ and -: a letter, one that toLowerCase changes, one that the
\* sanitisers replace, and the hyphen they keep.
Alphabet == {97, 90, 95, 45}

RECURSIVE StringsOfLen(_)
StringsOfLen(n) ==
    IF n = 0 THEN {<<>>}
    ELSE {Append(s, c) : s \in StringsOfLen(n - 1), c \in Alphabet}

\* Base names of directories and of worktree git directories: never empty.
Names == UNION {StringsOfLen(n) : n \in 1..MaxNameLen}

\* "t", "e2e" and the empty string, next to no suffix at all.
Suffixes == {Undefined, <<>>, <<116>>, <<101, 50, 101>>}

\* "m" and "m2"
Prefixes == {<<109>>, <<109, 50>>}

Roots == [dirName : Names, worktreeName : Names \cup {Null}]

ToLowerCase(s) ==
    [i \in 1..Len(s) |-> IF s[i] \in 65..90 THEN s[i] + 32 ELSE s[i]]

\* replace(/[^a-z0-9-]/g, "-")
ReplaceNonSlug(s) ==
    [i \in 1..Len(s) |->
        IF s[i] \in (97..122) \cup (48..57) \cup {45} THEN s[i] ELSE 45]

\* replace(/-+/g, "-")
RECURSIVE CollapseHyphens(_)
CollapseHyphens(s) ==
    IF Len(s) < 2 THEN s
    ELSE IF s[1] = 45 /\ s[2] = 45 THEN CollapseHyphens(Tail(s))
    ELSE <<s[1]>> \o CollapseHyphens(Tail(s))

\* replace(/^-+|-+$/g, "")
RECURSIVE TrimHyphens(_)
TrimHyphens(s) ==
    IF s = <<>> THEN s
    ELSE IF s[1] = 45 THEN TrimHyphens(Tail(s))
    ELSE IF s[Len(s)] = 45 THEN TrimHyphens(SubSeq(s, 1, Len(s) - 1))
    ELSE s

SanitizeProjectSuffix(value) ==
    TrimHyphens(CollapseHyphens(ReplaceNonSlug(ToLowerCase(value))))

GetWorktreeName(r) == r.worktreeName

IsWorktree(r) == GetWorktreeName(r) # Null

\* "worktree" when nothing is left of the name
GetWorktreeProjectSuffix(r) ==
    IF ~Truthy(GetWorktreeName(r)) THEN Null
    ELSE LET sanitized == SanitizeProjectSuffix(GetWorktreeName(r))
         IN IF sanitized = <<>>
            THEN <<119, 111, 114, 107, 116, 114, 101, 101>>
            ELSE sanitized

\* A 32-bit integer is kept as its two 16-bit halves [hi, lo] (two's
\* complement), so that every wrap of the hash is computed exactly.
\* hash = (hash << 5) - hash + char; hash = hash & hash
HashStep(h, char) ==
    LET lo == 31 * h.lo + char
    IN [lo |-> lo % 65536, hi |-> (31 * h.hi + lo \div 65536) % 65536]

RECURSIVE HashFrom(_, _)
HashFrom(h, str) ==
    IF str = <<>> THEN h ELSE HashFrom(HashStep(h, Head(str)), Tail(str))

\* The value of hash when the loop of simpleHash ends.
RawHash(str) == HashFrom([hi |-> 0, lo |-> 0], str)

IsNegative(h) == h.hi >= 32768

\* Mutant of AbsMod90: Math.abs is left out, so that the remainder of a
\* negative hash is negative.
AbsMod90NoAbs(h) ==
    IF IsNegative(h)
    THEN 0 - ((((65536 - h.hi) % 90) * 16 + 90 - (h.lo % 90)) % 90)
    ELSE ((h.hi % 90) * 16 + h.lo) % 90

\* Math.abs(hash) % 90.  Math.abs returns a double, so the absolute value
\* of -2^31 is 2^31; 65536 % 90 = 16.
AbsMod90(h) ==
    IF IsNegative(h)
    THEN (((65536 - h.hi) % 90) * 16 + 90 - (h.lo % 90)) % 90
    ELSE ((h.hi % 90) * 16 + h.lo) % 90

HashInput(suffix, worktreeName) ==
    IF Truthy(suffix) THEN worktreeName \o <<45>> \o suffix ELSE worktreeName

CalculatePortOffset(suffix, r) ==
    IF ~Truthy(GetWorktreeName(r)) THEN 0
    ELSE 10 + AbsMod90(RawHash(HashInput(suffix, GetWorktreeName(r))))

\* Mutant of GetProjectName: the directory name is not lower-cased.
GetProjectNameNoLower(prefix, suffix, r) ==
    LET baseName == prefix \o <<45>> \o ReplaceNonSlug(r.dirName)
    IN IF Truthy(suffix) THEN baseName \o <<45>> \o suffix ELSE baseName

GetProjectName(prefix, suffix, r) ==
    LET baseName == prefix \o <<45>> \o ReplaceNonSlug(ToLowerCase(r.dirName))
    IN IF Truthy(suffix) THEN baseName \o <<45>> \o suffix ELSE baseName

\* Mutant of ProjectSuffix: the worktree suffix is put first.
ProjectSuffixWorktreeFirst(suffix, worktreeSuffix) ==
    LET joined ==
            IF Truthy(suffix) /\ Truthy(worktreeSuffix)
            THEN worktreeSuffix \o <<45>> \o suffix
            ELSE IF Truthy(suffix) THEN suffix
            ELSE IF Truthy(worktreeSuffix) THEN worktreeSuffix
            ELSE <<>>
    IN IF joined = <<>> THEN Undefined ELSE joined

\* [suffix, worktreeSuffix].filter(Boolean).join("-") || undefined
ProjectSuffix(suffix, worktreeSuffix) ==
    LET joined ==
            IF Truthy(suffix) /\ Truthy(worktreeSuffix)
            THEN suffix \o <<45>> \o worktreeSuffix
            ELSE IF Truthy(suffix) THEN suffix
            ELSE IF Truthy(worktreeSuffix) THEN worktreeSuffix
            ELSE <<>>
    IN IF joined = <<>> THEN Undefined ELSE joined

ComputeDevIdentity(options, r) ==
    LET worktree == IsWorktree(r)
        worktreeSuffix ==
            IF worktree /\ options.worktreeIsolation
            THEN GetWorktreeProjectSuffix(r) ELSE Null
        projectSuffix == ProjectSuffix(options.suffix, worktreeSuffix)
    IN [worktree |-> worktree,
        worktreeSuffix |-> worktreeSuffix,
        projectSuffix |-> projectSuffix,
        projectName |-> GetProjectName(options.projectPrefix, projectSuffix, r),
        portOffset |-> CalculatePortOffset(options.suffix, r)]

NoIdentity == [worktree |-> FALSE, worktreeSuffix |-> Null,
               projectSuffix |-> Undefined, projectName |-> <<>>,
               portOffset |-> -1]

\* ------------------------------------------------------------------------
\* The facade: createDevEnvironment, withSuffix, the public URL map and
\* buildEnvVars (environment/index.ts), with the config validation it
\* starts with (config/validate-config.ts).
\* ------------------------------------------------------------------------

\* A number a config leaves out.
NoNumber == -1

\* Service and app names: "redis" (a built-in preset), "db" and "api".
Redis == <<114, 101, 100, 105, 115>>
Db == <<100, 98>>
Api == <<97, 112, 105>>

\* A generated-file path: absolute or not, and its segments.
RelativePath(segs) == [absolute |-> FALSE, segs |-> segs]
NoPath == [absolute |-> FALSE, segs |-> <<>>]

\* The first service of every config: redis, which needs no docker config.
RedisServices ==
    [name : {Redis},
     port : {NoNumber, 6379, 70000},
     secondaryPort : {NoNumber, 70000},
     serviceName : {Undefined},
     docker : {"none"},
     expose : {FALSE}]

\* The optional second service: db, which has no preset.
DbServices ==
    [name : {Db},
     port : {5432},
     secondaryPort : {9000},
     serviceName : {Undefined, Redis},
     docker : {"none", "raw"},
     expose : {FALSE}]

AppConfigs ==
    [name : {Api}, port : {NoNumber, 3000}, devCommand : BOOLEAN,
     expose : {FALSE}]

DevConfigs ==
    [projectPrefix : {<<>>, <<77>>, <<109>>},
     services : {<<>>} \cup {<<r>> : r \in RedisServices}
                    \cup {<<r, d>> : r \in RedisServices, d \in DbServices},
     apps : {<<>>} \cup {<<a>> : a \in AppConfigs},
     generatedFile : {NoPath,
                      [absolute |-> TRUE, segs |-> <<"gen.yml">>],
                      RelativePath(<<"x", "..", "..", "gen.yml">>)},
     writeStrategy : {"unset", "sometimes"},
     migrations : {"none", "noCommand"},
     seed : {"none", "noCommand"},
     envVars : {"none", "plain", "override"},
     worktreeIsolation : {TRUE}]

\* One entry of the errors list of validateConfig.
Err(msg, name) == [msg |-> msg, name |-> name]

\* errors.push(e) for every <<condition, e>> whose condition holds, in order.
Pushed(checks) ==
    LET hit == SelectSeq(checks, LAMBDA ch : ch[1])
    IN [i \in 1..Len(hit) |-> hit[i][2]]

OutOfRange(port) == port < 1 \/ port > 65535

InferBuiltInPreset(serviceName) ==
    ToLowerCase(serviceName) \in {<<112, 111, 115, 116, 103, 114, 101, 115>>, Redis, <<99, 108, 105, 99, 107, 104, 111, 117, 115, 101>>}

ComposeServiceName(service) ==
    IF service.serviceName = Undefined THEN service.name
    ELSE service.serviceName

\* The body of the loop over config.services for one service.
ServiceErrors(service, composeServiceNames) ==
    Pushed(<<
        <<service.port = NoNumber \/ service.port = 0,
          Err("must have a valid port number", service.name)>>,
        <<service.port # NoNumber /\ OutOfRange(service.port),
          Err("port must be between 1 and 65535", service.name)>>,
        <<service.secondaryPort # NoNumber
              /\ OutOfRange(service.secondaryPort),
          Err("secondaryPort must be between 1 and 65535", service.name)>>,
        <<ComposeServiceName(service) \in composeServiceNames,
          Err("Duplicate compose service name",
              ComposeServiceName(service))>>,
        <<service.docker = "none" /\ ~InferBuiltInPreset(service.name),
          Err("must define docker config", service.name)>>,
        <<service.docker = "badPreset",
          Err("has invalid docker preset", service.name)>> >>)

RECURSIVE ServicesErrors(_, _)
ServicesErrors(services, composeServiceNames) ==
    IF services = <<>> THEN <<>>
    ELSE ServiceErrors(Head(services), composeServiceNames)
            \o ServicesErrors(Tail(services),
                   composeServiceNames
                       \cup {ComposeServiceName(Head(services))})

\* path.normalize on the segments: "." is dropped and ".." removes the
\* segment before it, or stays when there is none to remove.
RECURSIVE NormalizeSegs(_, _)
NormalizeSegs(done, rest) ==
    IF rest = <<>> THEN done
    ELSE IF Head(rest) = "." THEN NormalizeSegs(done, Tail(rest))
    ELSE IF Head(rest) = ".." /\ done # <<>> /\ done[Len(done)] # ".."
         THEN NormalizeSegs(SubSeq(done, 1, Len(done) - 1), Tail(rest))
    ELSE NormalizeSegs(Append(done, Head(rest)), Tail(rest))

PointsOutside(path) ==
    LET normalized == NormalizeSegs(<<>>, path.segs)
    IN normalized # <<>> /\ normalized[1] = ".."

AppErrors(app) ==
    Pushed(<<
        <<app.port = NoNumber \/ app.port = 0,
          Err("must have a valid port number", app.name)>>,
        <<~app.devCommand, Err("must have a devCommand", app.name)>> >>)

RECURSIVE AppsErrors(_)
AppsErrors(apps) ==
    IF apps = <<>> THEN <<>>
    ELSE AppErrors(Head(apps)) \o AppsErrors(Tail(apps))

ValidPrefix(prefix) ==
    /\ prefix # <<>>
    /\ prefix[1] \in 97..122
    /\ \A i \in 1..Len(prefix) :
           prefix[i] \in (97..122) \cup (48..57) \cup {45}

ValidateConfig(config) ==
    Pushed(<<
        <<config.projectPrefix = <<>>,
          Err("projectPrefix is required", <<>>)>>,
        <<config.projectPrefix # <<>> /\ ~ValidPrefix(config.projectPrefix),
          Err("projectPrefix must start with a letter", <<>>)>>,
        <<config.services = <<>>,
          Err("At least one service is required", <<>>)>> >>)
    \o ServicesErrors(config.services, {})
    \o Pushed(<<
        <<config.writeStrategy \notin {"unset", "always", "if-missing"},
          Err("docker.writeStrategy is invalid", <<>>)>>,
        <<config.generatedFile # NoPath /\ config.generatedFile.absolute,
          Err("docker.generatedFile must be a relative path", <<>>)>>,
        <<config.generatedFile # NoPath
              /\ PointsOutside(config.generatedFile),
          Err("docker.generatedFile cannot point outside", <<>>)>> >>)
    \o AppsErrors(config.apps)
    \o Pushed(<<
        <<config.migrations = "noName",
          Err("Migration must have a name", <<>>)>>,
        <<config.migrations = "noCommand",
          Err("Migration must have a command", <<>>)>>,
        <<config.seed = "noCommand",
          Err("Seed must have a command", <<>>)>> >>)

\* Mutant of AssertValidConfig: the error names the first violation only.
AssertValidConfigFirstOnly(config) ==
    LET errors == ValidateConfig(config)
    IN IF errors = <<>> THEN errors ELSE <<errors[1]>>

\* The violations the thrown error lists; nothing is thrown when empty.
AssertValidConfig(config) == ValidateConfig(config)


\* ------------------------------------------------------------------------
\* Ports, URLs and environment variables.  A Record<string, T> is a
\* function whose domain is its set of keys.
\* ------------------------------------------------------------------------
EmptyMap == [k \in {} |-> <<>>]

\* obj[key] = value
Put(obj, key, value) ==
    [k \in DOMAIN obj \cup {key} |-> IF k = key THEN value ELSE obj[k]]

\* The entries of b written over those of a.
Merge(a, b) ==
    [k \in DOMAIN a \cup DOMAIN b |-> IF k \in DOMAIN b THEN b[k] ELSE a[k]]

ToUpperCase(s) ==
    [i \in 1..Len(s) |-> IF s[i] \in 97..122 THEN s[i] - 32 ELSE s[i]]

\* String(n) for n >= 0
RECURSIVE NumberToString(_)
NumberToString(n) ==
    IF n < 10 THEN <<48 + n>>
    ELSE Append(NumberToString(n \div 10), 48 + (n % 10))

RECURSIVE ServicePorts(_, _, _)
ServicePorts(ports, services, offset) ==
    IF services = <<>> THEN ports
    ELSE LET config == Head(services)
             primary == Put(ports, config.name, config.port + offset)
         IN ServicePorts(
                IF config.secondaryPort # NoNumber
                THEN Put(primary, config.name \o <<83, 101, 99, 111, 110, 100, 97, 114, 121>>,
                         config.secondaryPort + offset)
                ELSE primary,
                Tail(services), offset)

RECURSIVE AppPorts(_, _, _)
AppPorts(ports, apps, offset) ==
    IF apps = <<>> THEN ports
    ELSE AppPorts(Put(ports, Head(apps).name, Head(apps).port + offset),
                  Tail(apps), offset)

ComputePorts(services, apps, offset) ==
    AppPorts(ServicePorts(EmptyMap, services, offset), apps, offset)

\* "redis://localhost:<port>" for redis; a service without defaults and
\* without a database has no built-in URL (null).
BuildServiceUrl(serviceName, port) ==
    IF serviceName = Redis
    THEN <<114, 101, 100, 105, 115, 58, 47, 47, 108, 111, 99, 97, 108, 104, 111, 115, 116, 58>> \o NumberToString(port)
    ELSE Null

RECURSIVE ServiceUrls(_, _, _)
ServiceUrls(urls, services, ports) ==
    IF services = <<>> THEN urls
    ELSE LET name == Head(services).name
             builtUrl == BuildServiceUrl(name, ports[name])
         IN ServiceUrls(
                Put(urls, name,
                    IF builtUrl # Null THEN builtUrl
                    ELSE <<104, 116, 116, 112, 58, 47, 47, 108, 111, 99, 97, 108, 104, 111, 115, 116, 58>> \o NumberToString(ports[name])),
                Tail(services), ports)

\* The local IP is the loopback fallback of getLocalIp.
RECURSIVE AppUrls(_, _, _)
AppUrls(urls, apps, ports) ==
    IF apps = <<>> THEN urls
    ELSE LET name == Head(apps).name
             port == NumberToString(ports[name])
         IN AppUrls(
                Put(Put(urls, name, <<104, 116, 116, 112, 58, 47, 47, 108, 111, 99, 97, 108, 104, 111, 115, 116, 58>> \o port),
                    name \o <<76, 111, 99, 97, 108>>, <<104, 116, 116, 112, 58, 47, 47, 49, 50, 55, 46, 48, 46, 48, 46, 49, 58>> \o port),
                Tail(apps), ports)

ComputeUrls(services, apps, ports) ==
    AppUrls(ServiceUrls(EmptyMap, services, ports), apps, ports)

\* The variables one of the loops of buildEnvVars adds for the entries of
\* obj: <NAME><ending> for every key, NAME the key in upper case.
Injected(obj, ending, Value(_)) ==
    LET EnvName(name) == ToUpperCase(name) \o ending
    IN [k \in {EnvName(name) : name \in DOMAIN obj} |->
           Value(obj[CHOOSE name \in DOMAIN obj : EnvName(name) = k])]

Same(v) == v

\* What the env-var builder of the config returns, already through
\* String(): none; DATABASE_URL; or REDIS_PORT, NODE_ENV and WEBHOOK_URL,
\* the first two of which are also generated keys.
UserEnv(envVars, urls, publicUrls) ==
    CASE envVars = "plain" ->
           Put(EmptyMap, <<68, 65, 84, 65, 66, 65, 83, 69, 95, 85, 82, 76>>, urls[Redis])
      [] envVars = "override" ->
           Put(Put(Put(EmptyMap, <<82, 69, 68, 73, 83, 95, 80, 79, 82, 84>>, <<49>>),
                   <<78, 79, 68, 69, 95, 69, 78, 86>>, <<116, 101, 115, 116>>),
               <<87, 69, 66, 72, 79, 79, 75, 95, 85, 82, 76>>,
               IF Redis \in DOMAIN publicUrls THEN publicUrls[Redis]
               ELSE <<117, 110, 100, 101, 102, 105, 110, 101, 100>>)
      [] OTHER -> EmptyMap

BaseEnv(projectName, production) ==
    Put(Put(EmptyMap, <<67, 79, 77, 80, 79, 83, 69, 95, 80, 82, 79, 74, 69, 67, 84, 95, 78, 65, 77, 69>>, projectName),
        <<78, 79, 68, 69, 95, 69, 78, 86>>, IF production THEN <<112, 114, 111, 100, 117, 99, 116, 105, 111, 110>> ELSE <<100, 101, 118, 101, 108, 111, 112, 109, 101, 110, 116>>)

\* Mutant of BuildEnvVars: the builder's variables are written first.
BuildEnvVarsUserFirst(env, publicUrls, production, envVars) ==
    Merge(Merge(Merge(Merge(
        UserEnv(envVars, env.urls, publicUrls),
        BaseEnv(env.projectName, production)),
        Injected(env.ports, <<95, 80, 79, 82, 84>>, NumberToString)),
        Injected(env.urls, <<95, 85, 82, 76>>, Same)),
        Injected(publicUrls, <<95, 80, 85, 66, 76, 73, 67, 95, 85, 82, 76>>, Same))

BuildEnvVars(env, publicUrls, production, envVars) ==
    Merge(Merge(Merge(Merge(
        BaseEnv(env.projectName, production),
        Injected(env.ports, <<95, 80, 79, 82, 84>>, NumberToString)),
        Injected(env.urls, <<95, 85, 82, 76>>, Same)),
        Injected(publicUrls, <<95, 80, 85, 66, 76, 73, 67, 95, 85, 82, 76>>, Same)),
        UserEnv(envVars, env.urls, publicUrls))


\* ------------------------------------------------------------------------
\* Environment instances.  The publicUrls object of an instance is a cell of
\* heap; the instance holds the index of its cell.
\* ------------------------------------------------------------------------
NoEnvOut == [env |-> 0, production |-> FALSE, vars |-> EmptyMap]

\* A valid config: redis on 6379, no apps, no env-var builder.
PlainConfig ==
    [projectPrefix |-> <<109>>,
     services |-> <<[name |-> Redis, port |-> 6379,
                     secondaryPort |-> NoNumber, serviceName |-> Undefined,
                     docker |-> "none", expose |-> FALSE]>>,
     apps |-> <<>>,
     generatedFile |-> NoPath,
     writeStrategy |-> "unset",
     migrations |-> "none",
     seed |-> "none",
     envVars |-> "none",
     worktreeIsolation |-> TRUE]

\* No environment has been created.
InstIdle ==
    /\ devConfig = PlainConfig
    /\ envs = <<>>
    /\ heap = <<>>
    /\ thrown = <<>>
    /\ steps = <<>>
    /\ envOut = NoEnvOut

\* No runCli call has got as far as its arguments.
ExposeIdle ==
    /\ args = <<>>
    /\ targets = <<>>
    /\ tunnelList = <<>>
    /\ opened = <<>>
    /\ closedTunnels = {}
    /\ cliLog = <<>>

NoLoadOut == [op |-> "none", threw |-> FALSE, env |-> 0]

\* No loadDevEnv call has been made.
LoaderIdle ==
    /\ cachedEnv = 0
    /\ loads = [c \in 1..MaxLoads |-> "free"]
    /\ envCount = 0
    /\ loadOut = NoLoadOut
    /\ loadedSinceClear = FALSE
    /\ served = {}

\* No identity has been computed; the checkout is a plain one named "a".
FacIdle ==
    /\ root = [dirName |-> <<97>>, worktreeName |-> Null]
    /\ idOptions = [projectPrefix |-> <<109>>, suffix |-> Undefined,
                    worktreeIsolation |-> TRUE]
    /\ identity = NoIdentity
    /\ InstIdle
    /\ ExposeIdle
    /\ LoaderIdle

\* No interactive CLI session is running.
CliIdle ==
    /\ cliPc = "none"
    /\ child = "none"
    /\ tunnels = "none"
    /\ onSignalPending = 0
    /\ sigCount = 0

\* No session has run yet: no files, no monitor, no timer.
WdIdle ==
    /\ pidFile = 0
    /\ monitors = [p \in Pids |-> "unborn"]
    /\ sleepLeft = [p \in Pids |-> 0]
    /\ sigPending = {}
    /\ heartbeatInterval = 0
    /\ timerLeft = [t \in Timers |-> -1]
    /\ spawnCalls = 0
    /\ lastCheck = "none"

\* ------------------------------------------------------------------------
\* Initial state: an environment was created from a valid config; nothing
\* has been started yet.
\* ------------------------------------------------------------------------
Init ==
    /\ impl \in {"modular", "flat"}
    /\ cfg \in Configs
    /\ op = "none"
    /\ opts = NoOpts
    /\ pc = "idle"
    /\ awaiting = FALSE
    /\ log = <<>>
    /\ containers = "down"
    /\ passed = {}
    /\ attempts = [s \in Services |-> 0]
    /\ migResults = <<>>
    /\ spawned = <<>>
    /\ ready = {}
    /\ error = NoError
    /\ hbFile = HbMissing
    /\ WdIdle
    /\ CliIdle
    /\ FacIdle

\* ------------------------------------------------------------------------
\* start()
\* ------------------------------------------------------------------------

Reject(e) ==
    /\ pc' = "rejected"
    /\ error' = e

\* Mutant of BringUp: the compose file is re-applied on every start(),
\* whether or not the stack is already running.
BringUpAlways(o) ==
    /\ awaiting' = FALSE
    /\ migResults' = <<>>
    /\ spawned' = <<>>
    /\ ready' = {}
    /\ attempts' = [s \in Services |-> 0]
    /\ \E ok \in BOOLEAN :
            /\ log' = log \o <<Ev("bringUp", "up", 0)>>
            /\ IF ok
               THEN /\ containers' = "running"
                    /\ passed' = IF o.wait THEN HealthChecked(cfg) ELSE {}
                    /\ pc' = NextPhase("bringUp", impl, cfg, o)
                    /\ UNCHANGED error
               ELSE /\ containers' \in {"down", "running"}
                    /\ passed' = {}
                    /\ Reject([kind |-> "up", who |-> {}])

\* Entry of start() up to the end of the bring-up block: the running check
\* and, unless the stack is already running, startContainers.
BringUp(o) ==
    LET alreadyRunning == containers = "running"
    IN
    /\ awaiting' = FALSE
    /\ migResults' = <<>>
    /\ spawned' = <<>>
    /\ ready' = {}
    /\ attempts' = [s \in Services |-> 0]
    /\ IF alreadyRunning
       THEN /\ log' = log \o <<Ev("bringUp", "skip", 0)>>
            /\ passed' = {}
            /\ pc' = NextPhase("bringUp", impl, cfg, o)
            /\ UNCHANGED <<containers, error>>
       ELSE \E ok \in BOOLEAN :
            /\ log' = log \o <<Ev("bringUp", "up", 0)>>
            /\ IF ok
               THEN /\ containers' = "running"
                    /\ IF o.wait
                       THEN passed' = HealthChecked(cfg)
                       ELSE passed' = {}
                    /\ pc' = NextPhase("bringUp", impl, cfg, o)
                    /\ UNCHANGED error
               ELSE /\ containers' \in {"down", "running"}
                    /\ passed' = {}
                    /\ Reject([kind |-> "up", who |-> {}])

Start(o) ==
    /\ pc = "idle"
    /\ op' = "start"
    /\ opts' = o
    /\ log = <<>>
    /\ BringUp(o)
    /\ UNCHANGED <<impl, cfg>>
    /\ UNCHANGED <<wdVars, cliVars, facVars>>


\* waitForService in the flat start(): one poll of one service's health
\* check, which answers healthy or not.  A poll that finds the service
\* healthy completes that service's wait; the poll that uses up the budget
\* makes the wait throw.
WaitPoll(s, isHealthy) ==
    /\ op \in {"start", "restart"}
    /\ pc = "waitHealthy"
    /\ s \in HealthChecked(cfg) \ passed
    /\ attempts[s] < MaxAttempts
    /\ IF isHealthy
       THEN /\ passed' = passed \cup {s}
            /\ UNCHANGED <<attempts, pc, error>>
       ELSE /\ attempts' = [attempts EXCEPT ![s] = @ + 1]
            /\ IF attempts'[s] = MaxAttempts
               THEN Reject([kind |-> "health", who |-> {s}])
               ELSE UNCHANGED <<pc, error>>
            /\ UNCHANGED passed
    /\ UNCHANGED <<impl, cfg, op, opts, awaiting, log, containers,
                   migResults, spawned, ready>>
    /\ UNCHANGED <<wdVars, cliVars, facVars>>

\* Promise.all over the per-service waits has resolved: waitForAllServices
\* returns, and the attempt counters of the waits go out of scope.
\* Mutant of WaitJoin: the wait resolves as soon as one service is healthy.
WaitJoinAny ==
    /\ op \in {"start", "restart"}
    /\ pc = "waitHealthy"
    /\ passed # {}
    /\ attempts' = [s \in Services |-> 0]
    /\ log' = log \o <<Ev("waitHealthy", "end", 0)>>
    /\ pc' = NextPhase("waitHealthy", impl, cfg, opts)
    /\ UNCHANGED <<impl, cfg, op, opts, awaiting, containers,
                   passed, migResults, spawned, ready, error>>
    /\ UNCHANGED <<wdVars, cliVars, facVars>>

WaitJoin ==
    /\ op \in {"start", "restart"}
    /\ pc = "waitHealthy"
    /\ HealthChecked(cfg) \subseteq passed
    /\ attempts' = [s \in Services |-> 0]
    /\ log' = log \o <<Ev("waitHealthy", "end", 0)>>
    /\ pc' = NextPhase("waitHealthy", impl, cfg, opts)
    /\ UNCHANGED <<impl, cfg, op, opts, awaiting, containers,
                   passed, migResults, spawned, ready, error>>
    /\ UNCHANGED <<wdVars, cliVars, facVars>>

\* Mutant of RunMigration: a sequential loop that stops at the first failure.
RunMigrationAbortEarly(code) ==
    LET all == BuildMigrations(cfg)
        i == Len(migResults) + 1
    IN
    /\ pc = "migrations"
    /\ i <= Len(all)
    /\ migResults' = Append(migResults, code)
    /\ log' = log \o <<Ev("migrations", "begin", all[i]),
                       Ev("migrations", "end", all[i])>>
    /\ pc' = IF i = Len(all) \/ code # 0 THEN "migrationsJoin" ELSE pc
    /\ UNCHANGED <<impl, cfg, op, opts, awaiting, containers,
                   passed, attempts, spawned, ready, error>>
    /\ UNCHANGED <<wdVars, cliVars, facVars>>

\* One callback of allMigrations.map: exec -> execAsync -> exec -> execSync.
\* The Promise executor of execAsync runs exec synchronously, so the command
\* has run to completion when the callback reaches its await, and map then
\* calls the callback of the next migration.
RunMigration(code) ==
    LET all == BuildMigrations(cfg)
        i == Len(migResults) + 1
    IN
    /\ pc = "migrations"
    /\ i <= Len(all)
    /\ migResults' = Append(migResults, code)
    /\ log' = log \o <<Ev("migrations", "begin", all[i]),
                       Ev("migrations", "end", all[i])>>
    /\ pc' = IF i = Len(all) THEN "migrationsJoin" ELSE pc
    /\ UNCHANGED <<impl, cfg, op, opts, awaiting, containers,
                   passed, attempts, spawned, ready, error>>
    /\ UNCHANGED <<wdVars, cliVars, facVars>>

\* Mutant of JoinMigrations: failures are logged and start() goes on.
JoinMigrationsIgnoreFailure ==
    /\ pc = "migrationsJoin"
    /\ pc' = NextPhase("migrations", impl, cfg, opts)
    /\ UNCHANGED <<impl, cfg, op, opts, awaiting, log, containers,
                   passed, attempts, migResults, spawned, ready, error>>
    /\ UNCHANGED <<wdVars, cliVars, facVars>>

\* After await Promise.all: the failure loop.
JoinMigrations ==
    /\ pc = "migrationsJoin"
    /\ IF FirstFailure(migResults) # 0
       THEN Reject(MigrationError(BuildMigrations(cfg), migResults))
       ELSE /\ pc' = NextPhase("migrations", impl, cfg, opts)
            /\ UNCHANGED error
    /\ UNCHANGED <<impl, cfg, op, opts, awaiting, log, containers,
                   passed, attempts, migResults, spawned, ready>>
    /\ UNCHANGED <<wdVars, cliVars, facVars>>

\* start() calls one of its hooks and awaits it.
InvokeHook(h) ==
    /\ h \in StartHooks
    /\ pc = h
    /\ ~awaiting
    /\ awaiting' = TRUE
    /\ log' = log \o <<Ev(h, "begin", 0)>>
    /\ UNCHANGED <<impl, cfg, op, opts, pc, containers, passed,
                   attempts, migResults, spawned, ready, error>>
    /\ UNCHANGED <<wdVars, cliVars, facVars>>

\* Mutant of SettleHook: a rejecting hook is caught and start() goes on.
SettleHookSwallow(h, ok) ==
    /\ h \in StartHooks
    /\ pc = h
    /\ awaiting
    /\ awaiting' = FALSE
    /\ log' = log \o <<Ev(h, IF ok THEN "end" ELSE "fail", 0)>>
    /\ pc' = NextPhase(h, impl, cfg, opts)
    /\ UNCHANGED <<impl, cfg, op, opts, containers, passed,
                   attempts, migResults, spawned, ready, error>>
    /\ UNCHANGED <<wdVars, cliVars, facVars>>

\* The awaited hook settles: it resolves, or it rejects and start() rejects
\* with the hook's error.
SettleHook(h, ok) ==
    /\ h \in StartHooks
    /\ pc = h
    /\ awaiting
    /\ awaiting' = FALSE
    /\ log' = log \o <<Ev(h, IF ok THEN "end" ELSE "fail", 0)>>
    /\ IF ok
       THEN /\ pc' = NextPhase(h, impl, cfg, opts)
            /\ UNCHANGED error
       ELSE Reject([kind |-> "hook", who |-> {h}])
    /\ UNCHANGED <<impl, cfg, op, opts, containers, passed,
                   attempts, migResults, spawned, ready>>
    /\ UNCHANGED <<wdVars, cliVars, facVars>>

\* config.seed.check(seedCheckContext): the user's predicate answers whether
\* to seed, or rejects.
SeedCheck(res) ==
    /\ pc = "seedCheck"
    /\ log' = log \o <<Ev("seedCheck", res, 0)>>
    /\ CASE res = "seed" ->
              /\ pc' = "seed"
              /\ UNCHANGED error
         [] res = "skip" ->
              /\ pc' = NextPhase("seed", impl, cfg, opts)
              /\ UNCHANGED error
         [] OTHER -> Reject([kind |-> "seedCheck", who |-> {}])
    /\ UNCHANGED <<impl, cfg, op, opts, awaiting, containers,
                   passed, attempts, migResults, spawned, ready>>
    /\ UNCHANGED <<wdVars, cliVars, facVars>>

\* Mutant of RunSeed: the seed command is run with throwOnError.
RunSeedFatal(code) ==
    /\ pc = "seed"
    /\ log' = log \o <<Ev("seed", "begin", 0),
                       Ev("seed", IF code = 0 THEN "end" ELSE "fail", 0)>>
    /\ IF code = 0
       THEN /\ pc' = NextPhase("seed", impl, cfg, opts)
            /\ UNCHANGED error
       ELSE Reject([kind |-> "seed", who |-> {}])
    /\ UNCHANGED <<impl, cfg, op, opts, awaiting, containers,
                   passed, attempts, migResults, spawned, ready>>
    /\ UNCHANGED <<wdVars, cliVars, facVars>>

\* exec(config.seed.command, {throwOnError: false}): a non-zero exit code is
\* logged, nothing is thrown.
RunSeed(code) ==
    /\ pc = "seed"
    /\ log' = log \o <<Ev("seed", "begin", 0),
                       Ev("seed", IF code = 0 THEN "end" ELSE "fail", 0)>>
    /\ pc' = NextPhase("seed", impl, cfg, opts)
    /\ UNCHANGED <<impl, cfg, op, opts, awaiting, containers,
                   passed, attempts, migResults, spawned, ready, error>>
    /\ UNCHANGED <<wdVars, cliVars, facVars>>

\* The production-build switch of the server block.  options.productionBuild
\* is an input of the call that only this step acts on, so it is drawn here.
\* buildApps: the synchronous exec of each build command throws on failure.
BuildApps(productionBuild, ok) ==
    /\ pc = "build"
    /\ IF ~productionBuild
       THEN /\ pc' = NextPhase("build", impl, cfg, opts)
            /\ UNCHANGED <<log, error>>
       ELSE /\ log' = log \o <<Ev("build", IF ok THEN "end" ELSE "fail", 0)>>
            /\ IF ok
               THEN /\ pc' = NextPhase("build", impl, cfg, opts)
                    /\ UNCHANGED error
               ELSE Reject([kind |-> "build", who |-> {}])
    /\ UNCHANGED <<impl, cfg, op, opts, awaiting, containers,
                   passed, attempts, migResults, spawned, ready>>
    /\ UNCHANGED <<wdVars, cliVars, facVars>>

\* startDevServers: one iteration of its loop, the spawn of the next app.
SpawnApp ==
    LET a == Len(spawned) + 1
    IN
    /\ pc = "spawn"
    /\ a <= cfg.nApps
    /\ spawned' = Append(spawned, a)
    /\ log' = log \o <<Ev("spawn", "begin", a), Ev("spawn", "end", a)>>
    /\ pc' = IF a = cfg.nApps THEN NextPhase("spawn", impl, cfg, opts) ELSE pc
    /\ UNCHANGED <<impl, cfg, op, opts, awaiting, containers,
                   passed, attempts, migResults, ready, error>>
    /\ UNCHANGED <<wdVars, cliVars, facVars>>

\* waitForDevServers: the wait of one app resolves, or runs out of time.
\* Mutant of AppWait: the wait is over as soon as one app has responded.
AppWaitFirstReady(a, ok) ==
    /\ pc = "waitServers"
    /\ a \in Apps(cfg) \ ready
    /\ log' = log \o <<Ev("waitServers", IF ok THEN "end" ELSE "fail", a)>>
    /\ IF ok
       THEN /\ ready' = ready \cup {a}
            /\ pc' = NextPhase("waitServers", impl, cfg, opts)
            /\ UNCHANGED error
       ELSE /\ Reject([kind |-> "serverTimeout", who |-> {a}])
            /\ UNCHANGED ready
    /\ UNCHANGED <<impl, cfg, op, opts, awaiting, containers,
                   passed, attempts, migResults, spawned>>
    /\ UNCHANGED <<wdVars, cliVars, facVars>>

AppWait(a, ok) ==
    /\ pc = "waitServers"
    /\ a \in Apps(cfg) \ ready
    /\ log' = log \o <<Ev("waitServers", IF ok THEN "end" ELSE "fail", a)>>
    /\ IF ok
       THEN /\ ready' = ready \cup {a}
            /\ pc' = IF ready' = Apps(cfg)
                     THEN NextPhase("waitServers", impl, cfg, opts)
                     ELSE pc
            /\ UNCHANGED error
       ELSE /\ Reject([kind |-> "serverTimeout", who |-> {a}])
            /\ UNCHANGED ready
    /\ UNCHANGED <<impl, cfg, op, opts, awaiting, containers,
                   passed, attempts, migResults, spawned>>
    /\ UNCHANGED <<wdVars, cliVars, facVars>>

\* ------------------------------------------------------------------------
\* stop() and restart()
\* ------------------------------------------------------------------------

\* stopContainers: docker compose down [-v]; execSync throws when it fails.
\* lg is the log up to the call.
StopContainers(lg) ==
    \E ok \in BOOLEAN :
        /\ log' = lg \o <<Ev("down", IF ok THEN "end" ELSE "fail", 0)>>
        /\ IF ok
           THEN /\ containers' = "down"
                /\ pc' = "stopped"
                /\ UNCHANGED error
           ELSE /\ Reject([kind |-> "down", who |-> {}])
                /\ UNCHANGED containers

\* Entry of stop(): without a beforeStop hook the tear-down follows at once.
StopEntry ==
    IF "beforeStop" \in cfg.hooks
    THEN /\ pc' = "beforeStop"
         /\ awaiting' = TRUE
         /\ log' = log \o <<Ev("beforeStop", "begin", 0)>>
         /\ UNCHANGED <<containers, error>>
    ELSE /\ StopContainers(log)
         /\ UNCHANGED awaiting

Stop(o) ==
    /\ pc = "idle"
    /\ op' = "stop"
    /\ opts' = o
    /\ StopEntry
    /\ UNCHANGED <<impl, cfg, passed, attempts, migResults, spawned, ready>>
    /\ UNCHANGED <<wdVars, cliVars, facVars>>

Restart ==
    /\ pc = "idle"
    /\ op' = "restart"
    /\ opts' = NoOpts
    /\ StopEntry
    /\ UNCHANGED <<impl, cfg, passed, attempts, migResults, spawned, ready>>
    /\ UNCHANGED <<wdVars, cliVars, facVars>>

\* Mutant of SettleBeforeStop: a rejecting beforeStop hook is caught and the
\* tear-down is issued all the same.
SettleBeforeStopSwallow(ok) ==
    /\ pc = "beforeStop"
    /\ awaiting
    /\ awaiting' = FALSE
    /\ StopContainers(log \o <<Ev("beforeStop", IF ok THEN "end" ELSE "fail", 0)>>)
    /\ UNCHANGED <<impl, cfg, op, opts, passed, attempts, migResults,
                   spawned, ready>>
    /\ UNCHANGED <<wdVars, cliVars, facVars>>

\* The awaited beforeStop hook settles; on success the tear-down follows.
SettleBeforeStop(ok) ==
    /\ pc = "beforeStop"
    /\ awaiting
    /\ awaiting' = FALSE
    /\ IF ok
       THEN StopContainers(log \o <<Ev("beforeStop", "end", 0)>>)
       ELSE /\ log' = log \o <<Ev("beforeStop", "fail", 0)>>
            /\ Reject([kind |-> "hook", who |-> {"beforeStop"}])
            /\ UNCHANGED containers
    /\ UNCHANGED <<impl, cfg, op, opts, passed, attempts, migResults,
                   spawned, ready>>
    /\ UNCHANGED <<wdVars, cliVars, facVars>>

\* Mutant of RestartStart: restart() calls start() with its defaults.
RestartStartWithServers ==
    /\ op = "restart"
    /\ pc = "stopped"
    /\ opts' = NoOpts
    /\ BringUp(opts')
    /\ UNCHANGED <<impl, cfg, op>>
    /\ UNCHANGED <<wdVars, cliVars, facVars>>

\* restart(): stop() has resolved, start({startServers: false}) begins.
RestartStart ==
    /\ op = "restart"
    /\ pc = "stopped"
    /\ opts' = [NoOpts EXCEPT !.startServers = FALSE]
    /\ BringUp(opts')
    /\ UNCHANGED <<impl, cfg, op>>
    /\ UNCHANGED <<wdVars, cliVars, facVars>>

\* The call in flight has settled and the caller goes on.
Return ==
    /\ \/ pc \in {"resolved", "rejected"}
       \/ pc = "stopped" /\ op = "stop"
    /\ pc' = "idle"
    /\ op' = "none"
    /\ opts' = NoOpts
    /\ awaiting' = FALSE
    /\ log' = <<>>
    /\ passed' = {}
    /\ attempts' = [s \in Services |-> 0]
    /\ migResults' = <<>>
    /\ spawned' = <<>>
    /\ ready' = {}
    /\ error' = NoError
    /\ UNCHANGED <<impl, cfg, containers>>
    /\ UNCHANGED <<wdVars, cliVars, facVars>>

\* ------------------------------------------------------------------------
\* Watchdog / heartbeat protocol (core/watchdog.ts, core/watchdog-runner.ts)
\* ------------------------------------------------------------------------

\* isProcessAlive(pid): kill(pid, 0) succeeds for a process that has been
\* spawned and has not exited, whether or not its script has started.
IsProcessAlive(m, pid) == pid \in Pids /\ m[pid] \in {"starting", "running"}

\* getWatchdogPid: the PID in the PID file if that process is alive, else 0.
GetWatchdogPid(pf, m) == IF pf # 0 /\ IsProcessAlive(m, pf) THEN pf ELSE 0

\* cleanup() of the runner: unlink the PID file and the heartbeat file.
Cleanup ==
    /\ pidFile' = 0
    /\ hbFile' = HbMissing

\* Mutant of IsIdle: the elapsed time is compared in the wrong unit.
IsIdleWrongUnit(elapsed) == elapsed > IdleTimeout * 60

\* The comparison of the watchdog loop: elapsed > IDLE_TIMEOUT.
IsIdle(elapsed) == elapsed > IdleTimeout

\* spawnWatchdog: return when the PID file names a live process; otherwise
\* unlink the PID file and spawn a detached runner.  The runner writes its
\* PID itself, once its script runs.
SpawnWatchdogCall ==
    /\ spawnCalls < MaxSpawnCalls
    /\ spawnCalls' = spawnCalls + 1
    /\ IF GetWatchdogPid(pidFile, monitors) # 0
       THEN UNCHANGED <<pidFile, monitors>>
       ELSE /\ \E p \in Pids : monitors[p] = "unborn"
            /\ LET p == CHOOSE q \in Pids :
                            /\ monitors[q] = "unborn"
                            /\ \A r \in Pids : monitors[r] = "unborn" => q <= r
               IN monitors' = [monitors EXCEPT ![p] = "starting"]
            /\ pidFile' = 0

\* A call of spawnWatchdog on its own.
SpawnWatchdog ==
    /\ SpawnWatchdogCall
    /\ UNCHANGED <<hbFile, sleepLeft, sigPending, heartbeatInterval,
                   timerLeft, lastCheck>>
    /\ UNCHANGED <<lifeVars, cliVars, facVars>>

\* The runner's top-level script: write the PID file, install the signal
\* handlers, enter the loop and its first sleep.
MonitorStart(p) ==
    /\ monitors[p] = "starting"
    /\ p \notin sigPending
    /\ pidFile' = p
    /\ monitors' = [monitors EXCEPT ![p] = "running"]
    /\ sleepLeft' = [sleepLeft EXCEPT ![p] = CheckInterval]
    /\ UNCHANGED <<hbFile, sigPending, heartbeatInterval, timerLeft,
                   spawnCalls, lastCheck>>
    /\ UNCHANGED <<lifeVars, cliVars, facVars>>

\* Mutant of WatchdogCheck: a heartbeat that cannot be read counts as idle.
WatchdogCheckMissingIsIdle(p) ==
    /\ monitors[p] = "running"
    /\ p \notin sigPending
    /\ sleepLeft[p] = 0
    /\ IF hbFile \notin Ages \/ IsIdle(hbFile)
       THEN /\ containers' = "down"
            /\ Cleanup
            /\ monitors' = [monitors EXCEPT ![p] = "exitedIdle"]
            /\ lastCheck' = "read"
            /\ UNCHANGED sleepLeft
       ELSE /\ sleepLeft' = [sleepLeft EXCEPT ![p] = CheckInterval]
            /\ lastCheck' = "read"
            /\ UNCHANGED <<containers, hbFile, pidFile, monitors>>
    /\ UNCHANGED <<sigPending, heartbeatInterval, timerLeft, spawnCalls>>
    /\ UNCHANGED <<impl, cfg, op, opts, pc, awaiting, log, passed, attempts,
                   migResults, spawned, ready, error>>
    /\ UNCHANGED <<cliVars, facVars>>

\* One iteration of the watchdog loop after its sleep: read the heartbeat
\* file; a missing, unreadable or unparseable file means keep waiting; a
\* stale one means docker compose down, cleanup, exit.
WatchdogCheck(p) ==
    /\ monitors[p] = "running"
    /\ p \notin sigPending
    /\ sleepLeft[p] = 0
    /\ IF hbFile \in Ages /\ IsIdle(hbFile)
       THEN /\ containers' = "down"
            /\ Cleanup
            /\ monitors' = [monitors EXCEPT ![p] = "exitedIdle"]
            /\ lastCheck' = "read"
            /\ UNCHANGED sleepLeft
       ELSE /\ sleepLeft' = [sleepLeft EXCEPT ![p] = CheckInterval]
            /\ lastCheck' = IF hbFile \in Ages THEN "read" ELSE "wait"
            /\ UNCHANGED <<containers, hbFile, pidFile, monitors>>
    /\ UNCHANGED <<sigPending, heartbeatInterval, timerLeft, spawnCalls>>
    /\ UNCHANGED <<impl, cfg, op, opts, pc, awaiting, log, passed, attempts,
                   migResults, spawned, ready, error>>
    /\ UNCHANGED <<cliVars, facVars>>

\* Mutant of MonitorSignal: the signal handler also stops the stack.
MonitorSignalTearDown(p) ==
    /\ p \in sigPending
    /\ sigPending' = sigPending \ {p}
    /\ CASE monitors[p] = "running" ->
              /\ containers' = "down"
              /\ Cleanup
              /\ monitors' = [monitors EXCEPT ![p] = "exitedSignal"]
         [] monitors[p] = "starting" ->
              /\ monitors' = [monitors EXCEPT ![p] = "killed"]
              /\ UNCHANGED <<pidFile, hbFile, containers>>
         [] OTHER -> UNCHANGED <<pidFile, hbFile, monitors, containers>>
    /\ UNCHANGED <<sleepLeft, heartbeatInterval, timerLeft, spawnCalls,
                   lastCheck>>
    /\ UNCHANGED <<impl, cfg, op, opts, pc, awaiting, log, passed, attempts,
                   migResults, spawned, ready, error>>
    /\ UNCHANGED <<cliVars, facVars>>

\* SIGTERM reaches a monitor: a running one runs its handler (cleanup, exit);
\* one whose script has not started yet dies without running any code.
MonitorSignal(p) ==
    /\ p \in sigPending
    /\ sigPending' = sigPending \ {p}
    /\ CASE monitors[p] = "running" ->
              /\ Cleanup
              /\ monitors' = [monitors EXCEPT ![p] = "exitedSignal"]
         [] monitors[p] = "starting" ->
              /\ monitors' = [monitors EXCEPT ![p] = "killed"]
              /\ UNCHANGED <<pidFile, hbFile>>
         [] OTHER -> UNCHANGED <<pidFile, hbFile, monitors>>
    /\ UNCHANGED <<sleepLeft, heartbeatInterval, timerLeft, spawnCalls, lastCheck>>
    /\ UNCHANGED <<lifeVars, cliVars, facVars>>

\* stopWatchdog: SIGTERM to the live process named by the PID file, then
\* unlink the PID file.
StopWatchdog ==
    /\ LET pid == GetWatchdogPid(pidFile, monitors)
       IN sigPending' = IF pid # 0 THEN sigPending \cup {pid} ELSE sigPending
    /\ pidFile' = 0
    /\ UNCHANGED <<hbFile, monitors, sleepLeft, heartbeatInterval, timerLeft,
                   spawnCalls, lastCheck>>
    /\ UNCHANGED <<lifeVars, cliVars, facVars>>

\* startHeartbeat: write the timestamp now, create an interval timer and
\* store its handle in heartbeatInterval.  On a path that cannot be written
\* the first statement throws and nothing is changed.
StartHeartbeatCall ==
    /\ hbFile # HbUnreadable
    /\ \E t \in Timers : timerLeft[t] = -1
    /\ LET t == CHOOSE u \in Timers :
                    /\ timerLeft[u] = -1
                    /\ \A v \in Timers : timerLeft[v] = -1 => u <= v
       IN /\ timerLeft' = [timerLeft EXCEPT ![t] = HbInterval]
          /\ heartbeatInterval' = t
    /\ hbFile' = 0

\* A call of startHeartbeat on its own.
StartHeartbeat ==
    /\ StartHeartbeatCall
    /\ UNCHANGED <<pidFile, monitors, sleepLeft, sigPending, spawnCalls, lastCheck>>
    /\ UNCHANGED <<lifeVars, cliVars, facVars>>

\* The body of stopHeartbeat: clear the timer heartbeatInterval refers to,
\* if any, and reset the handle.
ClearHeartbeatTimer ==
    IF heartbeatInterval # 0
    THEN /\ timerLeft' = [timerLeft EXCEPT ![heartbeatInterval] = -1]
         /\ heartbeatInterval' = 0
    ELSE UNCHANGED <<timerLeft, heartbeatInterval>>

\* stopHeartbeat called while a handle is held (a call without one changes
\* nothing).
StopHeartbeat ==
    /\ heartbeatInterval # 0
    /\ ClearHeartbeatTimer
    /\ UNCHANGED <<hbFile, pidFile, monitors, sleepLeft, sigPending,
                   spawnCalls, lastCheck>>
    /\ UNCHANGED <<lifeVars, cliVars, facVars>>

\* Mutant of HeartbeatFire: the timer fires without rewriting the file.
HeartbeatFireNoWrite(t) ==
    /\ timerLeft[t] = 0
    /\ timerLeft' = [timerLeft EXCEPT ![t] = HbInterval]
    /\ UNCHANGED <<hbFile, pidFile, monitors, sleepLeft, sigPending,
                   heartbeatInterval, spawnCalls, lastCheck>>
    /\ UNCHANGED <<lifeVars, cliVars, facVars>>

\* An interval timer fires: rewrite the heartbeat file.
HeartbeatFire(t) ==
    /\ timerLeft[t] = 0
    /\ timerLeft' = [timerLeft EXCEPT ![t] = HbInterval]
    /\ hbFile' = 0
    /\ UNCHANGED <<pidFile, monitors, sleepLeft, sigPending,
                   heartbeatInterval, spawnCalls, lastCheck>>
    /\ UNCHANGED <<lifeVars, cliVars, facVars>>

\* The foreground process exits: its timers die with it.
ForegroundExit ==
    /\ \E t \in Timers : timerLeft[t] # -1
    /\ timerLeft' = [t \in Timers |-> -1]
    /\ heartbeatInterval' = 0
    /\ UNCHANGED <<hbFile, pidFile, monitors, sleepLeft, sigPending,
                   spawnCalls, lastCheck>>
    /\ UNCHANGED <<lifeVars, cliVars, facVars>>

\* One unit of time passes.  A timer or sleep that is due fires first.
Tick ==
    /\ \A t \in Timers : timerLeft[t] # 0
    /\ \A p \in Pids : monitors[p] = "running" => sleepLeft[p] > 0
    /\ sigPending = {}
    /\ timerLeft' = [t \in Timers |->
                        IF timerLeft[t] > 0 THEN timerLeft[t] - 1
                        ELSE timerLeft[t]]
    /\ sleepLeft' = [p \in Pids |->
                        IF monitors[p] = "running" THEN sleepLeft[p] - 1
                        ELSE sleepLeft[p]]
    /\ hbFile' = IF hbFile \in Ages
                 THEN (IF hbFile < MaxAge THEN hbFile + 1 ELSE MaxAge)
                 ELSE hbFile
    /\ UNCHANGED <<pidFile, monitors, sigPending, heartbeatInterval,
                   spawnCalls, lastCheck>>
    /\ UNCHANGED <<lifeVars, cliVars, facVars>>

\* The protocol is observed with the stack up and no facade call in flight.
\* The heartbeat file lives under /tmp: whatever is at its path when the
\* session begins is what the monitor finds until the emitter writes it.
WdInit ==
    /\ impl = "modular"
    /\ cfg = [prisma |-> FALSE, nUser |-> 0, hooks |-> {}, seed |-> "none",
              nApps |-> 0, nHealthCheck |-> 0]
    /\ op = "none"
    /\ opts = NoOpts
    /\ pc = "idle"
    /\ awaiting = FALSE
    /\ log = <<>>
    /\ containers = "running"
    /\ passed = {}
    /\ attempts = [s \in Services |-> 0]
    /\ migResults = <<>>
    /\ spawned = <<>>
    /\ ready = {}
    /\ error = NoError
    /\ hbFile \in {HbMissing, HbUnreadable, HbGarbage}
    /\ WdIdle
    /\ CliIdle
    /\ FacIdle

WdNext ==
    \/ SpawnWatchdog
    \/ \E p \in Pids : MonitorStart(p)
    \/ \E p \in Pids : WatchdogCheck(p)
    \/ \E p \in Pids : MonitorSignal(p)
    \/ StopWatchdog
    \/ StartHeartbeat
    \/ StopHeartbeat
    \/ \E t \in Timers : HeartbeatFire(t)
    \/ ForegroundExit
    \/ Tick

WdSpec == WdInit /\ [][WdNext]_vars

\* Time passes, due timers fire, and a spawned runner gets to run: its
\* script starts, its sleeps end, signals sent to it are delivered.
WdFairness ==
    /\ WF_vars(Tick)
    /\ \A p \in Pids : WF_vars(MonitorStart(p))
    /\ \A p \in Pids : WF_vars(WatchdogCheck(p))
    /\ \A p \in Pids : WF_vars(MonitorSignal(p))
    /\ \A t \in Timers : WF_vars(HeartbeatFire(t))

WdLiveSpec == WdInit /\ [][WdNext]_vars /\ WdFairness

\* ------------------------------------------------------------------------
\* Interactive mode of runCli (cli/run-cli.ts): the foreground process runs
\* the dev-server command and handles SIGINT/SIGTERM.
\* ------------------------------------------------------------------------

\* The synchronous part of cleanupTunnels: with tunnels held, close() is
\* called on each of them; the closes settle later.
BeginCleanupTunnels ==
    tunnels' = IF tunnels = "open" THEN "closing" ELSE tunnels

\* Mutant of CliSignal: the handler also stops the stack.
CliSignalStopsStack ==
    /\ cliPc \in {"runCommand", "returned", "cleanup"}
    /\ sigCount < MaxSignals
    /\ sigCount' = sigCount + 1
    /\ BeginCleanupTunnels
    /\ onSignalPending' = onSignalPending + 1
    /\ child' = IF child = "running" THEN "signalled" ELSE child
    /\ containers' = "down"
    /\ UNCHANGED cliPc
    /\ UNCHANGED <<impl, cfg, op, opts, pc, awaiting, log, passed, attempts,
                   migResults, spawned, ready, error>>
    /\ UNCHANGED <<wdVars, facVars>>

\* The handler runCommand registers for SIGINT and SIGTERM: `void onSignal()`
\* runs onSignal up to its first await (inside it, cleanupTunnels up to its
\* own first await), then proc.kill("SIGTERM") forwards the signal.
CliSignal ==
    /\ cliPc \in {"runCommand", "returned", "cleanup"}
    /\ sigCount < MaxSignals
    /\ sigCount' = sigCount + 1
    /\ BeginCleanupTunnels
    /\ onSignalPending' = onSignalPending + 1
    /\ child' = IF child = "running" THEN "signalled" ELSE child
    /\ UNCHANGED cliPc
    /\ UNCHANGED <<lifeVars, wdVars, facVars>>

\* The close() promises of the tunnels settle.
TunnelsClosed ==
    /\ cliPc \in {"runCommand", "returned", "cleanup"}
    /\ tunnels = "closing"
    /\ tunnels' = "closed"
    /\ UNCHANGED <<cliPc, child, onSignalPending, sigCount>>
    /\ UNCHANGED <<lifeVars, wdVars, facVars>>

\* An onSignal call resumes after `await cleanupTunnels()`: stopHeartbeat().
CliOnSignalResume ==
    /\ cliPc \in {"runCommand", "returned", "cleanup"}
    /\ onSignalPending > 0
    /\ tunnels # "closing"
    /\ onSignalPending' = onSignalPending - 1
    /\ ClearHeartbeatTimer
    /\ UNCHANGED <<cliPc, child, tunnels, sigCount>>
    /\ UNCHANGED <<hbFile, pidFile, monitors, sleepLeft, sigPending,
                   spawnCalls, lastCheck>>
    /\ UNCHANGED <<lifeVars, facVars>>

\* The dev-server command closes: after a forwarded SIGTERM (code null), or
\* on its own with exit code 0 or not.  runCommand resolves on 0 and null
\* and rejects otherwise.
ChildClose(ok) ==
    /\ cliPc = "runCommand"
    /\ child \in {"running", "signalled"}
    /\ child' = "closed"
    /\ cliPc' = IF child = "signalled" \/ ok THEN "returned" ELSE "failed"
    /\ UNCHANGED <<tunnels, onSignalPending, sigCount>>
    /\ UNCHANGED <<lifeVars, wdVars, facVars>>

\* runCli after `await runCommand`: stopHeartbeat(), then cleanupTunnels().
CliAfterRun ==
    /\ cliPc = "returned"
    /\ cliPc' = "cleanup"
    /\ ClearHeartbeatTimer
    /\ BeginCleanupTunnels
    /\ UNCHANGED <<child, onSignalPending, sigCount>>
    /\ UNCHANGED <<hbFile, pidFile, monitors, sleepLeft, sigPending,
                   spawnCalls, lastCheck>>
    /\ UNCHANGED <<lifeVars, facVars>>

\* The foreground process ends: runCli has returned, or it rejected on the
\* command's exit code.  Its timers, tunnels and pending calls end with it.
CliExit ==
    /\ \/ cliPc = "failed"
       \/ cliPc = "cleanup" /\ tunnels # "closing"
    /\ cliPc' = "exited"
    /\ onSignalPending' = 0
    /\ tunnels' = IF tunnels = "none" THEN "none" ELSE "closed"
    /\ timerLeft' = [t \in Timers |-> -1]
    /\ heartbeatInterval' = 0
    /\ UNCHANGED <<child, sigCount>>
    /\ UNCHANGED <<hbFile, pidFile, monitors, sleepLeft, sigPending,
                   spawnCalls, lastCheck>>
    /\ UNCHANGED <<lifeVars, facVars>>

\* runCli has reached runCommand: the stack is up (env.start has resolved),
\* with the watchdog option on a runner has been spawned and the heartbeat
\* started, with --expose the tunnels are open, and the command runs.
CliInit ==
    /\ impl = "modular"
    /\ cfg \in [prisma : {FALSE}, nUser : {0}, hooks : {{}, {"beforeStop"}},
                seed : {"none"}, nApps : {1}, nHealthCheck : {0}]
    /\ op = "none"
    /\ opts = NoOpts
    /\ pc = "idle"
    /\ awaiting = FALSE
    /\ log = <<>>
    /\ containers = "running"
    /\ passed = {}
    /\ attempts = [s \in Services |-> 0]
    /\ migResults = <<>>
    /\ spawned = <<>>
    /\ ready = {}
    /\ error = NoError
    /\ pidFile = 0
    /\ sleepLeft = [p \in Pids |-> 0]
    /\ sigPending = {}
    /\ lastCheck = "none"
    /\ \E watchdog \in BOOLEAN :
          IF watchdog
          THEN /\ monitors = [p \in Pids |-> IF p = 1 THEN "starting" ELSE "unborn"]
               /\ spawnCalls = 1
               /\ hbFile = 0
               /\ heartbeatInterval = 1
               /\ timerLeft = [t \in Timers |-> IF t = 1 THEN HbInterval ELSE -1]
          ELSE /\ monitors = [p \in Pids |-> "unborn"]
               /\ spawnCalls = 0
               /\ hbFile = HbMissing
               /\ heartbeatInterval = 0
               /\ timerLeft = [t \in Timers |-> -1]
    /\ cliPc = "runCommand"
    /\ child = "running"
    /\ tunnels \in {"none", "open"}
    /\ onSignalPending = 0
    /\ sigCount = 0
    /\ FacIdle

\* The interactive session, the monitor it spawned, and a later
\* `--down` / `--reset` invocation (env.stop()).
CliNext ==
    \/ CliSignal
    \/ TunnelsClosed
    \/ CliOnSignalResume
    \/ \E ok \in BOOLEAN : ChildClose(ok)
    \/ CliAfterRun
    \/ CliExit
    \/ \E p \in Pids : MonitorStart(p)
    \/ \E p \in Pids : WatchdogCheck(p)
    \/ \E t \in Timers : HeartbeatFire(t)
    \/ Tick
    \/ \E o \in StopOpts : Stop(o)
    \/ \E ok \in BOOLEAN : SettleBeforeStop(ok)
    \/ Return

CliSpec == CliInit /\ [][CliNext]_vars

Next ==
    \/ \E o \in StartOpts(impl, cfg) : Start(o)
    \/ \E s \in Services, isHealthy \in BOOLEAN : WaitPoll(s, isHealthy)
    \/ WaitJoin
    \/ \E code \in {0, 1} : RunMigration(code)
    \/ JoinMigrations
    \/ \E h \in StartHooks : InvokeHook(h)
    \/ \E h \in StartHooks, ok \in BOOLEAN : SettleHook(h, ok)
    \/ \E res \in {"seed", "skip", "reject"} : SeedCheck(res)
    \/ \E code \in {0, 1} : RunSeed(code)
    \/ \E productionBuild, ok \in BOOLEAN : BuildApps(productionBuild, ok)
    \/ SpawnApp
    \/ \E a \in 1..MaxApps, ok \in BOOLEAN : AppWait(a, ok)
    \/ \E o \in StopOpts : Stop(o)
    \/ Restart
    \/ \E ok \in BOOLEAN : SettleBeforeStop(ok)
    \/ RestartStart
    \/ Return

Spec == Init /\ [][Next]_vars

\* ------------------------------------------------------------------------
\* Properties
\* ------------------------------------------------------------------------

InStart == op \in {"start", "restart"} /\ pc \notin {"idle", "beforeStop", "stopped"}

LogIdx == 1..Len(log)
Has(phase, ev) == \E i \in LogIdx : log[i][1] = phase /\ log[i][2] = ev
HasPhase(phase) == \E i \in LogIdx : log[i][1] = phase

\* Position of the six ordered phases of a start() call.
Rank(phase) ==
    CASE phase = "migrations" -> 1
      [] phase = "afterContainersReady" -> 2
      [] phase = "seed" -> 3
      [] phase = "beforeServers" -> 4
      [] phase = "spawn" -> 5
      [] phase = "afterServers" -> 6
      [] OTHER -> 0

\* The work begun by event i is closed in time: an event of the same phase
\* and subject ends it before any event of a later phase, or no event of a
\* later phase has happened yet.
ClosedInTime(i) ==
    \/ \E k \in (i + 1)..Len(log) :
          /\ log[k][1] = log[i][1]
          /\ log[k][3] = log[i][3]
          /\ log[k][2] \in {"end", "fail"}
          /\ \A m \in (i + 1)..(k - 1) : Rank(log[m][1]) <= Rank(log[i][1])
    \/ \A m \in (i + 1)..Len(log) : Rank(log[m][1]) <= Rank(log[i][1])

\* C1: in every start() call the phases migrations, afterContainersReady,
\* seed, beforeServers, app spawn, afterServers happen in this order, and
\* every piece of work of an earlier phase has finished before any work of a
\* later phase begins.
C1_PhaseOrder ==
    InStart =>
        \A j \in LogIdx :
            LET r == Rank(log[j][1])
            IN r > 0 =>
                /\ \A i \in 1..(j - 1) : Rank(log[i][1]) <= r
                /\ log[j][2] = "begin" => ClosedInTime(j)

C1_Witness ==
    /\ op = "start" /\ pc = "resolved"
    /\ \A ph \in {"migrations", "afterContainersReady", "seed",
                  "beforeServers", "spawn", "afterServers"} : Has(ph, "end")

\* C2 (as claimed): in a start() call with wait=true no migration command
\* begins before the health check of every declared service has passed in
\* that call, whether the stack was brought up or found running.
C2_HealthBeforeMigrations ==
    (InStart /\ opts.wait /\ HasPhase("migrations")) =>
        HealthChecked(cfg) \subseteq passed

\* C3 (as claimed): at most one watchdog monitor process of the project is
\* alive in any reachable state.
C3_SingleMonitor ==
    Cardinality({p \in Pids : IsProcessAlive(monitors, p)}) <= 1

\* C4: a monitor exits on idle only at a check where the heartbeat age
\* exceeds the idle timeout, and that step tears the stack down and removes
\* both files; and whenever a running monitor faces a heartbeat file with a
\* timestamp that no timer refreshes, the idle shutdown eventually happens,
\* unless the heartbeat is resumed or a monitor is signalled first.
StaleFor(p) ==
    /\ monitors[p] = "running"
    /\ hbFile \in Ages
    /\ \A t \in Timers : timerLeft[t] = -1

IdleShutdownDone ==
    /\ \E q \in Pids : monitors[q] = "exitedIdle"
    /\ containers = "down"

C4_Escape ==
    \/ \E t \in Timers : timerLeft[t] # -1
    \/ sigPending # {}
    \/ \E q \in Pids : monitors[q] = "exitedSignal"

C4_IdleShutdown ==
    /\ [][\A p \in Pids :
            (monitors[p] = "running" /\ monitors'[p] = "exitedIdle") =>
                /\ hbFile \in Ages /\ hbFile > IdleTimeout
                /\ containers' = "down"
                /\ hbFile' = HbMissing
                /\ pidFile' = 0]_vars
    /\ \A p \in Pids : StaleFor(p) ~> (IdleShutdownDone \/ C4_Escape)

C4_Witness ==
    /\ IdleShutdownDone
    /\ hbFile = HbMissing /\ pidFile = 0
    /\ ~C4_Escape

Failing == {i \in 1..Len(migResults) : migResults[i] # 0}
AllMigrations == BuildMigrations(cfg)
PastMigrations == InStart /\ pc \notin {"waitHealthy", "migrations", "migrationsJoin"}

\* C5: when a migration fails, every migration command has still been
\* executed by the time start() rejects, and the error start() rejects with
\* names a failing migration (the failing one, when exactly one fails).
C5_MigrationFanOut ==
    (PastMigrations /\ Failing # {}) =>
        /\ pc = "rejected" /\ error.kind = "migration"
        /\ Len(migResults) = Len(AllMigrations)
        /\ \A i \in 1..Len(AllMigrations) :
               \E k \in LogIdx : log[k] = Ev("migrations", "end", AllMigrations[i])
        /\ error.who # {}
        /\ error.who \subseteq {AllMigrations[i] : i \in Failing}

C5_Witness ==
    /\ pc = "rejected" /\ error.kind = "migration"
    /\ Len(AllMigrations) >= 2
    /\ Failing = {1}
    /\ Len(migResults) = Len(AllMigrations)
    /\ error.who = {AllMigrations[1]}

\* C6 (as claimed): the migration commands run concurrently: no migration
\* command has completed before every migration command has been started.
C6_MigrationsConcurrent ==
    InStart =>
        \A k \in LogIdx :
            (log[k][1] = "migrations" /\ log[k][2] = "end") =>
                \A i \in 1..Len(AllMigrations) :
                    \E b \in 1..k :
                        log[b] = Ev("migrations", "begin", AllMigrations[i])

LaterPhases ==
    {"afterContainersReady", "seedCheck", "seed", "beforeServers", "build",
     "spawn", "waitServers", "afterServers"}

\* C7: once a migration has exited non-zero, start() rejects and no later
\* phase runs in that call: no hook, no seeding, no app spawn; and nothing is
\* undone: the stack is not torn down.
C7_MigrationFailureStops ==
    (InStart /\ Failing # {}) =>
        /\ pc \in {"migrations", "migrationsJoin", "rejected"}
        /\ \A ph \in LaterPhases : ~HasPhase(ph)
        /\ spawned = <<>>
        /\ containers = "running"
        /\ \A k \in LogIdx :
               log[k][1] = "down" => \E b \in (k + 1)..Len(log) : log[b][1] = "bringUp"

C7_Witness ==
    /\ pc = "rejected" /\ error.kind = "migration"
    /\ "afterContainersReady" \in cfg.hooks
    /\ cfg.seed # "none" /\ ~opts.skipSeed
    /\ ServerPhase(cfg, opts)

\* C8 (as claimed): when more than one migration fails, the failure start()
\* reports names every failing migration.
C8_AllFailuresNamed ==
    (pc = "rejected" /\ error.kind = "migration") =>
        error.who = {AllMigrations[i] : i \in Failing}

\* C8 (amended): when more than one migration fails, the failure start()
\* reports names exactly one migration: the first failing one in
\* declaration order.
C8_FirstFailureNamed ==
    (pc = "rejected" /\ error.kind = "migration") =>
        \E i \in Failing :
            /\ \A j \in Failing : i <= j
            /\ error.who = {AllMigrations[i]}

C8_Witness ==
    /\ pc = "rejected" /\ error.kind = "migration"
    /\ Cardinality(Failing) >= 2

SeedFailed == Has("seed", "fail")

\* C9: a seed command that exits non-zero never makes start() reject: with
\* apps configured and servers requested the call goes on through the server
\* phase (beforeServers, spawn, readiness wait, afterServers), and can only
\* be rejected by a failure of that phase; otherwise it resolves.
C9_SeedNonFatal ==
    (InStart /\ SeedFailed) =>
        /\ ServerPhase(cfg, opts) =>
              /\ pc \in {"beforeServers", "build", "spawn", "waitServers",
                         "afterServers", "resolved", "rejected"}
              /\ pc = "rejected" =>
                    \/ error.kind \in {"build", "serverTimeout"}
                    \/ error.kind = "hook"
                         /\ error.who \subseteq {"beforeServers", "afterServers"}
              /\ pc = "resolved" =>
                    /\ Len(spawned) = cfg.nApps
                    /\ ready = Apps(cfg)
                    /\ \A h \in {"beforeServers", "afterServers"} :
                           h \in cfg.hooks => Has(h, "end")
        /\ ~ServerPhase(cfg, opts) => pc = "resolved"

C9_Witness ==
    /\ SeedFailed
    /\ op = "start" /\ pc = "resolved"
    /\ Len(spawned) >= 1
    /\ Has("beforeServers", "end") /\ Has("afterServers", "end")

\* C10: when the afterContainersReady, beforeServers or afterServers hook
\* rejects, start() rejects with that hook's error and nothing of a later
\* phase runs in that call: the hook's failure is the last thing that
\* happened.
C10_HookFailureFatal ==
    InStart =>
        \A k \in LogIdx :
            (log[k][1] \in StartHooks /\ log[k][2] = "fail") =>
                /\ pc = "rejected"
                /\ error.kind = "hook" /\ error.who = {log[k][1]}
                /\ k = Len(log)
                /\ log[k][1] = "afterContainersReady" =>
                       ~HasPhase("seed") /\ ~HasPhase("seedCheck")
                /\ log[k][1] \in {"afterContainersReady", "beforeServers"} =>
                       spawned = <<>>

C10_Witness ==
    /\ pc = "rejected"
    /\ error.kind = "hook" /\ error.who = {"beforeServers"}
    /\ cfg.nApps >= 1 /\ opts.startServers
    /\ Has("afterContainersReady", "end")

InStop == op \in {"stop", "restart"}

\* The start() of the call in flight has begun: in restart() that is once
\* its stop() has resolved.
StartBegun == InStart /\ (op = "start" \/ Has("down", "end"))

\* C11: stop() issues the tear-down only after the beforeStop hook, when one
\* is configured, has resolved; and when the hook rejects, stop() rejects
\* with the hook's error and the tear-down is never issued (in restart(),
\* nothing of start() follows either).
C11_BeforeStopThenDown ==
    InStop =>
        /\ \A k \in LogIdx :
               (log[k][1] = "down" /\ "beforeStop" \in cfg.hooks) =>
                   \E b \in 1..(k - 1) : log[b] = Ev("beforeStop", "end", 0)
        /\ pc = "beforeStop" => ~HasPhase("down")
        /\ Has("beforeStop", "fail") =>
               /\ pc = "rejected"
               /\ error.kind = "hook" /\ error.who = {"beforeStop"}
               /\ ~HasPhase("down")
               /\ ~HasPhase("bringUp")

C11_Witness ==
    /\ op = "stop" /\ pc = "rejected"
    /\ Has("beforeStop", "fail")
    /\ containers = "running"

\* The step that runs the bring-up block of a start() call.
IsBringUpStep ==
    \/ pc = "idle" /\ op' = "start"
    \/ op = "restart" /\ pc = "stopped" /\ pc' # "stopped"

UpEvents == {k \in LogIdx : log[k] = Ev("bringUp", "up", 0)}
SkipEvents == {k \in LogIdx : log[k] = Ev("bringUp", "skip", 0)}

\* C12: the bring-up block of start() invokes the runtime's up exactly when
\* the running check reports the stack as not running; a start() call then
\* holds exactly one up, placed before every migration, and a call that
\* found the stack running holds none.
C12_UpOnlyWhenNotRunning ==
    /\ [](StartBegun =>
            /\ Cardinality(UpEvents) + Cardinality(SkipEvents) = 1
            /\ \A k \in UpEvents : \A m \in LogIdx :
                   log[m][1] = "migrations" => k < m)
    /\ [][IsBringUpStep =>
            IF containers = "running"
            THEN /\ log' = log \o <<Ev("bringUp", "skip", 0)>>
                 /\ containers' = containers
            ELSE log' = log \o <<Ev("bringUp", "up", 0)>>]_vars

C12_Witness ==
    /\ op = "start" /\ pc = "resolved"
    /\ SkipEvents # {} /\ UpEvents = {}
    /\ HasPhase("migrations")

\* C13: in restart() nothing of start() happens before stop() has completed
\* (hook resolved, tear-down done), the start runs with startServers=false,
\* and no app is spawned and no beforeServers/afterServers hook runs.
C13_RestartStopThenStart ==
    op = "restart" =>
        /\ \A k \in LogIdx :
               log[k][1] = "bringUp" =>
                   /\ \E d \in 1..(k - 1) : log[d] = Ev("down", "end", 0)
                   /\ "beforeStop" \in cfg.hooks =>
                          \E b \in 1..(k - 1) : log[b] = Ev("beforeStop", "end", 0)
        /\ Has("down", "fail") => ~HasPhase("bringUp")
        /\ StartBegun => ~opts.startServers
        /\ \A ph \in {"beforeServers", "build", "spawn", "waitServers",
                       "afterServers"} : ~HasPhase(ph)
        /\ spawned = <<>>

C13_Witness ==
    /\ op = "restart" /\ pc = "resolved"
    /\ cfg.nApps >= 1
    /\ {"beforeStop", "beforeServers", "afterServers"} \subseteq cfg.hooks
    /\ Has("beforeStop", "end") /\ Has("down", "end")

\* Monitor p completes a check of its loop in this step.
ChecksNow(p) ==
    /\ monitors[p] = "running"
    /\ p \notin sigPending
    /\ sleepLeft[p] = 0
    /\ sleepLeft'[p] # 0 \/ monitors'[p] # "running"

\* C14: a check that finds the heartbeat file missing, unreadable or not
\* parseable never tears the stack down: the monitor goes back to sleep and
\* the stack, the heartbeat file and the PID file are left as they are; and
\* no step taken while the file is in such a state stops the stack.
C14_NoShutdownWithoutHeartbeat ==
    [][hbFile \notin Ages =>
          /\ containers' = containers
          /\ \A p \in Pids :
                 /\ monitors'[p] = "exitedIdle" => monitors[p] = "exitedIdle"
                 /\ ChecksNow(p) =>
                        /\ monitors'[p] = "running"
                        /\ sleepLeft'[p] = CheckInterval
                        /\ hbFile' = hbFile
                        /\ pidFile' = pidFile]_vars

C14_Witness ==
    /\ lastCheck = "wait"
    /\ hbFile = HbGarbage
    /\ containers = "running"
    /\ \E p \in Pids : monitors[p] = "running" /\ pidFile = p

\* C15: a monitor that handles SIGTERM/SIGINT removes the PID file and the
\* heartbeat file and exits, and the stack is left as it is.
C15_SignalCleanupNoTearDown ==
    [][\A p \in Pids :
          (p \in sigPending /\ monitors[p] = "running"
                            /\ monitors'[p] # "running") =>
              /\ monitors'[p] = "exitedSignal"
              /\ pidFile' = 0
              /\ hbFile' = HbMissing
              /\ containers' = containers]_vars

C15_Witness ==
    /\ \E p \in Pids : monitors[p] = "exitedSignal"
    /\ \A p \in Pids : monitors[p] \in {"unborn", "exitedSignal"}
    /\ pidFile = 0 /\ hbFile = HbMissing
    /\ \E t \in Timers : timerLeft[t] # -1
    /\ containers = "running"

\* C16 (as claimed): once stopHeartbeat has returned, no timer of the
\* process writes the heartbeat file until startHeartbeat is called again.
C16_NoWriteAfterStop ==
    [][heartbeatInterval = 0 =>
          \A t \in Timers : ~(timerLeft[t] = 0 /\ timerLeft'[t] = HbInterval)]_vars

\* C19 (as claimed): a monitor that exits on its own leaves no PID file, and
\* when stopWatchdog returns there is no PID file and every monitor that
\* was alive has been sent SIGTERM.
C19_StopWatchdogStops ==
    [][/\ StopWatchdog =>
             /\ pidFile' = 0
             /\ \A p \in Pids :
                    IsProcessAlive(monitors, p) => p \in sigPending'
       /\ \A p \in Pids :
             (monitors[p] = "running"
                 /\ monitors'[p] \in {"exitedIdle", "exitedSignal"}) =>
                 pidFile' = 0]_vars

\* C20 (as claimed): no heartbeat file remains after the watchdog's idle
\* shutdown, nor after the heartbeat has been stopped explicitly.
C20_HeartbeatFileRemoved ==
    [][/\ \A p \in Pids :
             (monitors[p] = "running" /\ monitors'[p] = "exitedIdle") =>
                 hbFile' = HbMissing
       /\ StopHeartbeat => hbFile' = HbMissing]_vars

\* The step in which the foreground process forwards the signal to the
\* dev-server command.
ForwardsSignal == child = "running" /\ child' = "signalled"

\* C17 (as claimed): when the signal is forwarded to the dev-server command,
\* the heartbeat timer has been stopped and no tunnel is open or closing.
C17_CleanupBeforeForward ==
    [][ForwardsSignal =>
          /\ heartbeatInterval' = 0
          /\ \A t \in Timers : timerLeft'[t] = -1
          /\ tunnels' \in {"none", "closed"}]_vars

\* C18: no step of the foreground process stops the stack, so a stack that
\* ran before the signal runs when the foreground process has exited; the
\* stack goes down only in a monitor's idle shutdown or in a stop() call.
C18_SignalPathKeepsStack ==
    [][/\ cliVars' # cliVars => containers' = containers
       /\ (containers = "running" /\ containers' = "down") =>
             \/ \E p \in Pids :
                    monitors[p] = "running" /\ monitors'[p] = "exitedIdle"
             \/ op' = "stop"]_vars

C18_Witness ==
    /\ cliPc = "exited"
    /\ sigCount >= 1
    /\ child = "closed"
    /\ containers = "running"
    /\ op = "none"
    /\ \A p \in Pids : monitors[p] # "exitedIdle"

\* ------------------------------------------------------------------------
\* Identity resolution on its own: computeDevIdentity applied to every
\* root and every option within the bounds.
\* ------------------------------------------------------------------------

\* No facade call is in flight, no session is running.
LifeQuiet ==
    /\ impl = "modular"
    /\ cfg = [prisma |-> FALSE, nUser |-> 0, hooks |-> {}, seed |-> "none",
              nApps |-> 0, nHealthCheck |-> 0]
    /\ op = "none"
    /\ opts = NoOpts
    /\ pc = "idle"
    /\ awaiting = FALSE
    /\ log = <<>>
    /\ containers = "down"
    /\ passed = {}
    /\ attempts = [s \in Services |-> 0]
    /\ migResults = <<>>
    /\ spawned = <<>>
    /\ ready = {}
    /\ error = NoError
    /\ hbFile = HbMissing
    /\ WdIdle

NothingRunning == LifeQuiet /\ CliIdle

IdInit ==
    /\ NothingRunning
    /\ root \in Roots
    /\ idOptions \in [projectPrefix : Prefixes, suffix : Suffixes,
                      worktreeIsolation : BOOLEAN]
    /\ identity = NoIdentity
    /\ InstIdle
    /\ ExposeIdle
    /\ LoaderIdle

ComputeIdentity ==
    /\ identity = NoIdentity
    /\ identity' = ComputeDevIdentity(idOptions, root)
    /\ UNCHANGED <<root, idOptions, instVars, exposeVars, loaderVars>>
    /\ UNCHANGED <<lifeVars, wdVars, cliVars>>

IdNext == ComputeIdentity

IdSpec == IdInit /\ [][IdNext]_vars

\* ------------------------------------------------------------------------
\* Claims about identity resolution
\* ------------------------------------------------------------------------
Computed == identity # NoIdentity

\* The identity of the sibling worktree named w of the same repository,
\* with the same directory name and the same options.
SiblingIdentity(w) ==
    ComputeDevIdentity(idOptions, [root EXCEPT !.worktreeName = w])

\* C24 (as claimed): two worktrees of one repository with different
\* worktree names get different port offsets.
C24_WorktreesCollisionFree ==
    (Computed /\ IsWorktree(root)) =>
        \A w \in Names \ {root.worktreeName} :
            SiblingIdentity(w).portOffset # identity.portOffset

\* C25: the port offset of a worktree is in 10..99, also when the hash
\* wrapped to a negative 32-bit value; outside a worktree it is 0.
C25_OffsetRange ==
    Computed =>
        IF root.worktreeName # Null
        THEN identity.portOffset \in 10..99
        ELSE identity.portOffset = 0

C25_Witness ==
    /\ Computed
    /\ root.worktreeName # Null
    /\ IsNegative(RawHash(HashInput(idOptions.suffix, root.worktreeName)))
    /\ identity.portOffset \in 10..99

EndsWith(s, t) ==
    Len(s) >= Len(t) /\ SubSeq(s, Len(s) - Len(t) + 1, Len(s)) = t

\* The project name without any suffix.
BaseName == GetProjectName(idOptions.projectPrefix, Undefined, root)

\* C26: projectSuffix is the explicit suffix and the worktree suffix, the
\* non-empty ones, joined by a hyphen with the explicit one first, and is
\* undefined when there is neither; projectName is the base name followed
\* by a hyphen and projectSuffix when there is one, the base name alone
\* otherwise.
C26_ProjectSuffixOrder ==
    Computed =>
        LET e == idOptions.suffix
            w == identity.worktreeSuffix
            hasE == e \notin {Undefined, <<>>}
            hasW == w # Null
        IN /\ identity.projectSuffix =
                  CASE hasE /\ hasW -> e \o <<45>> \o w
                    [] hasE /\ ~hasW -> e
                    [] ~hasE /\ hasW -> w
                    [] OTHER -> Undefined
           /\ IF hasE \/ hasW
              THEN /\ EndsWith(identity.projectName,
                               <<45>> \o identity.projectSuffix)
                   /\ Len(identity.projectName) =
                          Len(BaseName) + 1 + Len(identity.projectSuffix)
              ELSE identity.projectName = BaseName

C26_Witness ==
    /\ Computed
    /\ idOptions.suffix = <<116>>
    /\ identity.worktreeSuffix = <<97>>
    /\ identity.projectSuffix = <<116, 45, 97>>

\* The sanitisation the specification describes: lower-cased, every run of
\* characters outside [a-z0-9] replaced by one hyphen, hyphens at either
\* end stripped.
IsLowerAlnum(c) == c \in (97..122) \cup (48..57)

RECURSIVE RunsToHyphen(_)
RunsToHyphen(s) ==
    IF s = <<>> THEN s
    ELSE IF IsLowerAlnum(s[1]) THEN <<s[1]>> \o RunsToHyphen(Tail(s))
    ELSE IF Len(s) >= 2 /\ ~IsLowerAlnum(s[2]) THEN RunsToHyphen(Tail(s))
    ELSE <<45>> \o RunsToHyphen(Tail(s))

Sanitized(s) == TrimHyphens(RunsToHyphen(ToLowerCase(s)))

\* C27 (as claimed): projectName starts with prefix, a hyphen and the
\* sanitised directory name.
C27_ProjectNameSanitized ==
    Computed =>
        LET expected == idOptions.projectPrefix \o <<45>>
                            \o Sanitized(root.dirName)
        IN SubSeq(identity.projectName, 1, Len(expected)) = expected
           /\ (identity.projectSuffix = Undefined =>
                  identity.projectName = expected)

\* C27 (amended): projectName starts with prefix, a hyphen and the
\* directory name lower-cased with each character outside [a-z0-9-]
\* replaced by a hyphen; runs of hyphens and hyphens at either end stay.
C27_ProjectNameReplaced ==
    Computed =>
        LET p == idOptions.projectPrefix
            d == root.dirName
            n == identity.projectName
        IN /\ Len(n) >= Len(p) + 1 + Len(d)
           /\ SubSeq(n, 1, Len(p)) = p
           /\ n[Len(p) + 1] = 45
           /\ \A i \in 1..Len(d) :
                  n[Len(p) + 1 + i] =
                      IF d[i] \in 65..90 THEN d[i] + 32
                      ELSE IF IsLowerAlnum(d[i]) \/ d[i] = 45 THEN d[i]
                      ELSE 45
           /\ identity.projectSuffix = Undefined =>
                  Len(n) = Len(p) + 1 + Len(d)

C27_Witness ==
    /\ Computed
    /\ root.dirName = <<90, 95>>
    /\ identity.projectSuffix = Undefined
    /\ identity.projectName = idOptions.projectPrefix \o <<45, 122, 45>>

\* C28 (as claimed): with worktreeIsolation false, a sibling worktree that
\* differs only in its worktree name gets the same worktree suffix (null),
\* the same project suffix and the same port offset.
C28_IsolationOffSameIdentity ==
    (Computed /\ IsWorktree(root) /\ ~idOptions.worktreeIsolation) =>
        \A w \in Names :
            /\ SiblingIdentity(w).worktreeSuffix = Null
            /\ identity.worktreeSuffix = Null
            /\ SiblingIdentity(w).projectSuffix = identity.projectSuffix
            /\ SiblingIdentity(w).portOffset = identity.portOffset

\* ------------------------------------------------------------------------
\* The facade as a state machine
\* ------------------------------------------------------------------------
\* The part of createDevEnvironment after the validation: the closure
\* state of the new instance, its publicUrls being the cell ref.
NewEnvironment(config, suffix, r, ref) ==
    LET id == ComputeDevIdentity(
                  [projectPrefix |-> config.projectPrefix,
                   suffix |-> suffix,
                   worktreeIsolation |-> config.worktreeIsolation], r)
        ports == ComputePorts(config.services, config.apps, id.portOffset)
    IN [suffix |-> suffix,
        projectName |-> id.projectName,
        portOffset |-> id.portOffset,
        isWorktree |-> id.worktree,
        ports |-> ports,
        urls |-> ComputeUrls(config.services, config.apps, ports),
        publicUrls |-> ref]

ConstructionSteps ==
    <<"assertValidConfig", "findMonorepoRoot", "computeDevIdentity",
      "getLocalIp", "getGeneratedComposePath", "computePorts",
      "computeUrls">>

\* createDevEnvironment(config, { suffix }), the first call.
CreateDevEnvironment(suffix) ==
    /\ envs = <<>>
    /\ steps = <<>>
    /\ LET errors == AssertValidConfig(devConfig)
       IN IF errors # <<>>
          THEN /\ thrown' = errors
               /\ steps' = <<"assertValidConfig">>
               /\ UNCHANGED <<envs, heap>>
          ELSE /\ envs' = <<NewEnvironment(devConfig, suffix, root, 1)>>
               /\ heap' = <<EmptyMap>>
               /\ steps' = ConstructionSteps
               /\ UNCHANGED thrown
    /\ envOut' = NoEnvOut
    /\ UNCHANGED <<devConfig, idVars, exposeVars, loaderVars>>
    /\ UNCHANGED <<lifeVars, wdVars, cliVars>>

\* Mutant of WithSuffix: the new instance is given the publicUrls object of
\* the instance it was made from.
WithSuffixSharedUrls(i, newSuffix) ==
    /\ i \in 1..Len(envs)
    /\ Len(envs) < MaxEnvs
    /\ envs' = Append(envs, NewEnvironment(devConfig, newSuffix, root,
                                           envs[i].publicUrls))
    /\ heap' = Append(heap, EmptyMap)
    /\ envOut' = NoEnvOut
    /\ UNCHANGED <<devConfig, thrown, steps, idVars, exposeVars, loaderVars>>
    /\ UNCHANGED <<lifeVars, wdVars, cliVars>>

\* env.withSuffix(newSuffix) on instance i: createDevEnvironment with the
\* same config, which has passed the validation before.
WithSuffix(i, newSuffix) ==
    /\ i \in 1..Len(envs)
    /\ Len(envs) < MaxEnvs
    /\ envs' = Append(envs, NewEnvironment(devConfig, newSuffix, root,
                                           Len(heap) + 1))
    /\ heap' = Append(heap, EmptyMap)
    /\ envOut' = NoEnvOut
    /\ UNCHANGED <<devConfig, thrown, steps, idVars, exposeVars, loaderVars>>
    /\ UNCHANGED <<lifeVars, wdVars, cliVars>>

\* Public URLs of tunnels: "https://a.example" and "https://b.example".
UrlA == <<104, 116, 116, 112, 115, 58, 47, 47, 97, 46, 101, 120, 97, 109, 112, 108, 101>>
UrlB == <<104, 116, 116, 112, 115, 58, 47, 47, 98, 46, 101, 120, 97, 109, 112, 108, 101>>

PublicUrlInputs ==
    {EmptyMap,
     Put(EmptyMap, Redis, UrlA),
     Put(EmptyMap, Api, UrlB),
     Put(Put(EmptyMap, Redis, UrlB), Api, UrlA)}

\* Every key of obj deleted.
Emptied(obj) == [k \in DOMAIN obj \ DOMAIN obj |-> obj[k]]

\* Mutant of SetPublicUrls: the keys present before are not deleted.
SetPublicUrlsKeepKeys(i, urlsInput) ==
    /\ i \in 1..Len(envs)
    /\ heap' = [heap EXCEPT ![envs[i].publicUrls] = Merge(@, urlsInput)]
    /\ envOut' = NoEnvOut
    /\ UNCHANGED <<devConfig, envs, thrown, steps, idVars, exposeVars, loaderVars>>
    /\ UNCHANGED <<lifeVars, wdVars, cliVars>>

\* env.setPublicUrls(urlsInput) on instance i
SetPublicUrls(i, urlsInput) ==
    /\ i \in 1..Len(envs)
    /\ heap' = [heap EXCEPT
                  ![envs[i].publicUrls] = Merge(Emptied(@), urlsInput)]
    /\ envOut' = NoEnvOut
    /\ UNCHANGED <<devConfig, envs, thrown, steps, idVars, exposeVars, loaderVars>>
    /\ UNCHANGED <<lifeVars, wdVars, cliVars>>

\* env.clearPublicUrls() on instance i
ClearPublicUrls(i) ==
    /\ i \in 1..Len(envs)
    /\ heap' = [heap EXCEPT ![envs[i].publicUrls] = Emptied(@)]
    /\ envOut' = NoEnvOut
    /\ UNCHANGED <<devConfig, envs, thrown, steps, idVars, exposeVars, loaderVars>>
    /\ UNCHANGED <<lifeVars, wdVars, cliVars>>

\* env.buildEnvVars(production) on instance i; envOut holds the returned
\* object until the next operation.
BuildEnvVarsCall(i, production) ==
    /\ i \in 1..Len(envs)
    /\ envOut' = [env |-> i, production |-> production,
                  vars |-> BuildEnvVars(envs[i], heap[envs[i].publicUrls],
                                        production, devConfig.envVars)]
    /\ UNCHANGED <<devConfig, envs, heap, thrown, steps, idVars, exposeVars, loaderVars>>
    /\ UNCHANGED <<lifeVars, wdVars, cliVars>>

\* A plain checkout named "a", and the worktree "Za" of it.
FacRoots ==
    {[dirName |-> <<97>>, worktreeName |-> Null],
     [dirName |-> <<97>>, worktreeName |-> <<90, 97>>]}

FacInit ==
    /\ NothingRunning
    /\ root \in FacRoots
    /\ idOptions = [projectPrefix |-> <<109>>, suffix |-> Undefined,
                    worktreeIsolation |-> TRUE]
    /\ identity = NoIdentity
    /\ devConfig \in DevConfigs
    /\ envs = <<>>
    /\ heap = <<>>
    /\ thrown = <<>>
    /\ steps = <<>>
    /\ envOut = NoEnvOut
    /\ ExposeIdle
    /\ LoaderIdle

FacNext ==
    \/ \E suffix \in {Undefined, <<116>>} : CreateDevEnvironment(suffix)
    \/ \E i \in 1..MaxEnvs, newSuffix \in {<<116>>, <<101, 50, 101>>} :
           WithSuffix(i, newSuffix)
    \/ \E i \in 1..MaxEnvs, urlsInput \in PublicUrlInputs :
           SetPublicUrls(i, urlsInput)
    \/ \E i \in 1..MaxEnvs : ClearPublicUrls(i)
    \/ \E i \in 1..MaxEnvs, production \in BOOLEAN :
           BuildEnvVarsCall(i, production)

FacSpec == FacInit /\ [][FacNext]_vars

\* ------------------------------------------------------------------------
\* The ports of the environments created from configs with ports at the
\* edges of what validateConfig accepts.
\* ------------------------------------------------------------------------

\* Configs with redis, with or without a secondary port, and at most one
\* app, the ports taken from below, at and above the limits.
PortConfigs ==
    {[PlainConfig EXCEPT !.services = <<r>>, !.apps = a] :
        r \in [name : {Redis}, port : {0, 1, 6379, 65535, 65536},
               secondaryPort : {NoNumber, 0, 9000, 65535},
               serviceName : {Undefined}, docker : {"none"},
               expose : {FALSE}],
        a \in {<<>>} \cup
              {<<app>> : app \in [name : {Api}, port : {NoNumber, 3000, 65535, 70000},
                                  devCommand : {TRUE}, expose : {FALSE}]}}

PortsInit ==
    /\ NothingRunning
    /\ root \in FacRoots
    /\ idOptions = [projectPrefix |-> <<109>>, suffix |-> Undefined,
                    worktreeIsolation |-> TRUE]
    /\ identity = NoIdentity
    /\ devConfig \in PortConfigs
    /\ envs = <<>>
    /\ heap = <<>>
    /\ thrown = <<>>
    /\ steps = <<>>
    /\ envOut = NoEnvOut
    /\ ExposeIdle
    /\ LoaderIdle

PortsNext ==
    \/ \E suffix \in {Undefined, <<116>>} : CreateDevEnvironment(suffix)
    \/ \E i \in 1..MaxEnvs, newSuffix \in {<<116>>, <<101, 50, 101>>} :
           WithSuffix(i, newSuffix)

PortsSpec == PortsInit /\ [][PortsNext]_vars

\* ------------------------------------------------------------------------
\* Claims about the facade
\* ------------------------------------------------------------------------
Instances == 1..Len(envs)

\* The content of the publicUrls object of instance i.
PublicUrlsOf(i) == heap[envs[i].publicUrls]

SetsOrClears(i) ==
    \/ \E urlsInput \in PublicUrlInputs : SetPublicUrls(i, urlsInput)
    \/ ClearPublicUrls(i)

\* C21: withSuffix adds an instance and leaves every existing one as it
\* was (projectName, portOffset, ports, urls and the content of
\* publicUrls), and setPublicUrls or clearPublicUrls on one instance
\* leaves the publicUrls of every other instance as they were.
C21_WithSuffixNoAliasing ==
    [][/\ (envs # <<>> /\ Len(envs') > Len(envs)) =>
              \A j \in Instances :
                  /\ envs'[j] = envs[j]
                  /\ heap'[envs'[j].publicUrls] = PublicUrlsOf(j)
       /\ \A i \in Instances :
              SetsOrClears(i) =>
                  \A j \in Instances \ {i} :
                      heap'[envs'[j].publicUrls] = PublicUrlsOf(j)]_vars

C21_Witness ==
    /\ Len(envs) >= 2
    /\ envs[1].suffix # envs[2].suffix
    /\ envs[1].projectName # envs[2].projectName
    /\ envs[1].portOffset # envs[2].portOffset
    /\ PublicUrlsOf(1) = Put(EmptyMap, Redis, UrlA)
    /\ PublicUrlsOf(2) = Put(EmptyMap, Api, UrlB)

\* C22: setPublicUrls leaves exactly its argument in the map, whatever the
\* map held before, and clearPublicUrls leaves it empty.
C22_PublicUrlsWholesale ==
    [][\A i \in Instances :
          /\ \A urlsInput \in PublicUrlInputs :
                 SetPublicUrls(i, urlsInput) =>
                     /\ DOMAIN heap'[envs[i].publicUrls] = DOMAIN urlsInput
                     /\ \A k \in DOMAIN urlsInput :
                            heap'[envs[i].publicUrls][k] = urlsInput[k]
          /\ ClearPublicUrls(i) =>
                 DOMAIN heap'[envs[i].publicUrls] = {}]_vars

C22_Witness ==
    /\ envs # <<>>
    /\ DOMAIN PublicUrlsOf(1) = {Api}
    /\ PublicUrlsOf(1)[Api] = UrlB

\* C23: the object buildEnvVars returns has the project-name and the mode
\* variable, <NAME>_PORT for every computed port, <NAME>_URL for every
\* computed URL and <NAME>_PUBLIC_URL for every public URL now set, each
\* with the generated value unless the builder returned that key, and every
\* key the builder returned with the builder's value.
C23_EnvVarsBuilderWins ==
    envOut.env # 0 =>
        LET env == envs[envOut.env]
            out == envOut.vars
            user == UserEnv(devConfig.envVars, env.urls,
                            PublicUrlsOf(envOut.env))
            Carries(key, value) ==
                /\ key \in DOMAIN out
                /\ key \notin DOMAIN user => out[key] = value
        IN /\ Carries(<<67, 79, 77, 80, 79, 83, 69, 95, 80, 82, 79, 74, 69, 67, 84, 95, 78, 65, 77, 69>>, env.projectName)
           /\ Carries(<<78, 79, 68, 69, 95, 69, 78, 86>>,
                  IF envOut.production THEN <<112, 114, 111, 100, 117, 99, 116, 105, 111, 110>>
                  ELSE <<100, 101, 118, 101, 108, 111, 112, 109, 101, 110, 116>>)
           /\ \A name \in DOMAIN env.ports :
                  Carries(ToUpperCase(name) \o <<95, 80, 79, 82, 84>>,
                      NumberToString(env.ports[name]))
           /\ \A name \in DOMAIN env.urls :
                  Carries(ToUpperCase(name) \o <<95, 85, 82, 76>>, env.urls[name])
           /\ \A name \in DOMAIN PublicUrlsOf(envOut.env) :
                  Carries(ToUpperCase(name) \o <<95, 80, 85, 66, 76, 73, 67, 95, 85, 82, 76>>,
                      PublicUrlsOf(envOut.env)[name])
           /\ \A key \in DOMAIN user : out[key] = user[key]

C23_Witness ==
    /\ envOut.env # 0
    /\ devConfig.envVars = "override"
    /\ envOut.vars[<<82, 69, 68, 73, 83, 95, 80, 79, 82, 84>>] = <<49>>
    /\ envs[envOut.env].ports[Redis] > 6379
    /\ envOut.vars[<<78, 79, 68, 69, 95, 69, 78, 86>>] = <<116, 101, 115, 116>>
    /\ <<65, 80, 73, 95, 80, 85, 66, 76, 73, 67, 95, 85, 82, 76>> \in DOMAIN envOut.vars
    /\ <<68, 66, 83, 69, 67, 79, 78, 68, 65, 82, 89, 95, 80, 79, 82, 84>> \in DOMAIN envOut.vars

\* The violations of a config, each stated on its own.
When(cond, e) == IF cond THEN {e} ELSE {}

Violations(config) ==
    LET services == config.services
        apps == config.apps
        prefix == config.projectPrefix
        S == 1..Len(services)
        A == 1..Len(apps)
    IN When(prefix = <<>>, Err("projectPrefix is required", <<>>))
       \cup When(/\ prefix # <<>>
                 /\ \/ prefix[1] \notin 97..122
                    \/ \E i \in 1..Len(prefix) :
                          prefix[i] \notin (97..122) \cup (48..57) \cup {45},
                 Err("projectPrefix must start with a letter", <<>>))
       \cup When(services = <<>>,
                 Err("At least one service is required", <<>>))
       \cup {Err("must have a valid port number", services[i].name) :
                i \in {j \in S : services[j].port = NoNumber}}
       \cup {Err("port must be between 1 and 65535", services[i].name) :
                i \in {j \in S : services[j].port > 65535}}
       \cup {Err("secondaryPort must be between 1 and 65535",
                 services[i].name) :
                i \in {j \in S : services[j].secondaryPort > 65535}}
       \cup {Err("Duplicate compose service name",
                 ComposeServiceName(services[i])) :
                i \in {j \in S : \E k \in 1..(j - 1) :
                          ComposeServiceName(services[k]) =
                              ComposeServiceName(services[j])}}
       \cup {Err("must define docker config", services[i].name) :
                i \in {j \in S : /\ services[j].docker = "none"
                                 /\ services[j].name # Redis}}
       \cup When(config.writeStrategy = "sometimes",
                 Err("docker.writeStrategy is invalid", <<>>))
       \cup When(config.generatedFile.absolute,
                 Err("docker.generatedFile must be a relative path", <<>>))
       \cup When(PointsOutside(config.generatedFile),
                 Err("docker.generatedFile cannot point outside", <<>>))
       \cup {Err("must have a valid port number", apps[i].name) :
                i \in {j \in A : apps[j].port = NoNumber}}
       \cup {Err("must have a devCommand", apps[i].name) :
                i \in {j \in A : ~apps[j].devCommand}}
       \cup When(config.migrations = "noCommand",
                 Err("Migration must have a command", <<>>))
       \cup When(config.seed = "noCommand",
                 Err("Seed must have a command", <<>>))

Listed == {thrown[i] : i \in 1..Len(thrown)}

\* C29: when the config has a violation, the first createDevEnvironment
\* call stops at the validation: nothing else has run, no instance exists,
\* the stack is untouched, and the error lists every violation of the
\* config.
C29_RejectsEagerlyListsAll ==
    (steps # <<>> /\ Violations(devConfig) # {}) =>
        /\ steps = <<"assertValidConfig">>
        /\ envs = <<>>
        /\ heap = <<>>
        /\ containers = "down"
        /\ Violations(devConfig) \subseteq Listed

C29_Witness ==
    /\ steps = <<"assertValidConfig">>
    /\ Len(thrown) >= 5
    /\ Err("projectPrefix must start with a letter", <<>>) \in Listed
    /\ Err("must have a valid port number", Redis) \in Listed
    /\ Err("secondaryPort must be between 1 and 65535", Redis) \in Listed
    /\ Err("Duplicate compose service name", Redis) \in Listed
    /\ Err("docker.generatedFile cannot point outside", <<>>) \in Listed

\* ------------------------------------------------------------------------
\* runCli up to interactive mode: the flags, env.start, the --expose block
\* (cli/run-cli.ts, core/tunnel.ts).  Arguments are strings as above.
\* ------------------------------------------------------------------------
Expose == <<45, 45, 101, 120, 112, 111, 115, 101>>

StartsWith(s, prefix) ==
    Len(s) >= Len(prefix) /\ SubSeq(s, 1, Len(prefix)) = prefix

\* args.includes(flag)
HasFlag(argv, flag) == \E i \in 1..Len(argv) : argv[i] = flag

\* s.split(sep) for a one-character separator
RECURSIVE SplitFrom(_, _, _)
SplitFrom(piece, s, sep) ==
    IF s = <<>> THEN <<piece>>
    ELSE IF Head(s) = sep THEN <<piece>> \o SplitFrom(<<>>, Tail(s), sep)
    ELSE SplitFrom(Append(piece, Head(s)), Tail(s), sep)

Split(s, sep) == SplitFrom(<<>>, s, sep)

\* s.trim(), for spaces
RECURSIVE Trim(_)
Trim(s) ==
    IF s = <<>> THEN s
    ELSE IF s[1] = 32 THEN Trim(Tail(s))
    ELSE IF s[Len(s)] = 32 THEN Trim(SubSeq(s, 1, Len(s) - 1))
    ELSE s

GetFlagValue(argv, flag) ==
    LET withValue == {i \in 1..Len(argv) :
                         StartsWith(argv[i], Append(flag, 61))}
        at == {i \in 1..Len(argv) : argv[i] = flag}
        index == IF at = {} THEN 0 ELSE CHOOSE i \in at : \A j \in at : i <= j
    IN IF withValue # {}
       THEN Split(argv[CHOOSE i \in withValue :
                          \A j \in withValue : i <= j], 61)[2]
       ELSE IF index # 0 /\ index + 1 <= Len(argv)
               /\ ~StartsWith(argv[index + 1], <<45>>)
            THEN argv[index + 1]
            ELSE Undefined

AcceptedFlags ==
    {<<45, 45, 104, 101, 108, 112>>, <<45, 45, 100, 111, 119, 110>>, <<45, 45, 114, 101, 115, 101, 116>>, <<45, 45, 109, 105, 103, 114, 97, 116, 101>>, <<45, 45, 115, 101, 101, 100>>, <<45, 45, 117, 112, 45, 111, 110, 108, 121>>,
     Expose}

GetUnknownFlags(argv) ==
    SelectSeq(argv, LAMBDA arg :
        /\ StartsWith(arg, <<45, 45>>)
        /\ Split(arg, 61)[1] \notin AcceptedFlags)

\* The entries of a sequence, each once, in the order of first occurrence.
RECURSIVE Distinct(_)
Distinct(s) ==
    IF s = <<>> THEN s
    ELSE LET front == Distinct(SubSeq(s, 1, Len(s) - 1))
         IN IF \E i \in 1..Len(front) : front[i] = s[Len(s)]
            THEN front ELSE Append(front, s[Len(s)])

\* The requested names, or Null when --expose carries no value.
ParseExposeNames(exposeValue) ==
    IF exposeValue = Undefined THEN Null
    ELSE LET pieces == Split(exposeValue, 44)
             names == [i \in 1..Len(pieces) |-> Trim(pieces[i])]
         IN Distinct(SelectSeq(names, LAMBDA name : name # <<>>))

ResolveExposeTargets(config, ports, exposeValue) ==
    LET requestedNames == ParseExposeNames(exposeValue)
        entries == config.services \o config.apps
        known == SelectSeq(entries, LAMBDA e : e.name \in DOMAIN ports)
        enabled == SelectSeq(known, LAMBDA e : e.expose)
        NamesOf(list) == [i \in 1..Len(list) |-> list[i].name]
        IsKnown(name) == \E i \in 1..Len(known) : known[i].name = name
        IsEnabled(name) == \E i \in 1..Len(enabled) : enabled[i].name = name
    IN IF requestedNames = Null
       THEN [targets |-> NamesOf(enabled), unknownNames |-> <<>>,
             notEnabledNames |-> <<>>]
       ELSE [targets |-> SelectSeq(requestedNames, IsEnabled),
             unknownNames |->
                 SelectSeq(requestedNames, LAMBDA name : ~IsKnown(name)),
             notEnabledNames |->
                 SelectSeq(requestedNames, LAMBDA name :
                     IsKnown(name) /\ ~IsEnabled(name))]

\* The public URL the tunnel service hands out for a target.
TunnelUrl(name) == IF name = Redis THEN UrlA ELSE UrlB

\* cleanupTunnels() while no tunnel is held
ClearedUrls == [heap EXCEPT ![envs[1].publicUrls] = Emptied(@)]

\* A call runCli makes: on the environment (start, stop, exec) or on the
\* watchdog (spawnWatchdog, startHeartbeat), with what tells calls apart.
Call(name, arg) == [call |-> name, arg |-> arg]

\* The command the --seed branch of runCli executes.
RunSeeder == "bun run run:seeder"

\* runCli from its entry to the end of env.start: --help, unknown flags,
\* --down and --reset end the run here, in this order of precedence;
\* env.stop is taken to resolve, env.start resolves or rejects.
RunCliStart(startOk) ==
    /\ cliPc = "runCli"
    /\ IF HasFlag(args, <<45, 45, 104, 101, 108, 112>>)
       THEN cliPc' = "exit0" /\ UNCHANGED <<containers, cliLog, heap>>
       ELSE IF GetUnknownFlags(args) # <<>>
       THEN cliPc' = "exit1" /\ UNCHANGED <<containers, cliLog, heap>>
       ELSE IF HasFlag(args, <<45, 45, 100, 111, 119, 110>>) \/ HasFlag(args, <<45, 45, 114, 101, 115, 101, 116>>)
       THEN /\ heap' = ClearedUrls
            /\ cliLog' = <<Call("stop", IF HasFlag(args, <<45, 45, 100, 111, 119, 110>>)
                                        THEN "keepVolumes"
                                        ELSE "removeVolumes")>>
            /\ containers' = "down"
            /\ cliPc' = "exit0"
       ELSE /\ cliLog' = <<Call("start", IF HasFlag(args, <<45, 45, 115, 101, 101, 100>>)
                                         THEN "skipSeed" ELSE "seed")>>
            /\ IF startOk
               THEN cliPc' = "expose" /\ containers' = "running"
               ELSE cliPc' = "rejected" /\ containers' \in {"down", "running"}
            /\ UNCHANGED heap
    /\ UNCHANGED <<impl, cfg, op, opts, pc, awaiting, log, passed, attempts,
                   migResults, spawned, ready, error>>
    /\ UNCHANGED <<child, tunnels, onSignalPending, sigCount>>
    /\ UNCHANGED <<devConfig, envs, thrown, steps, envOut>>
    /\ UNCHANGED <<args, targets, tunnelList, opened, closedTunnels>>
    /\ UNCHANGED <<wdVars, idVars, loaderVars>>

\* if (exposeRequested) { ... } up to the call of startPublicTunnels
ExposeResolve ==
    /\ cliPc = "expose"
    /\ LET exposeRequested == HasFlag(args, Expose)
           exposeValue == GetFlagValue(args, Expose)
           resolved == ResolveExposeTargets(devConfig, envs[1].ports,
                                            exposeValue)
       IN IF ~exposeRequested
          THEN cliPc' = "flags" /\ UNCHANGED <<targets, heap>>
          ELSE IF \/ resolved.unknownNames # <<>>
                  \/ resolved.notEnabledNames # <<>>
                  \/ resolved.targets = <<>>
          THEN cliPc' = "exit1" /\ heap' = ClearedUrls /\ UNCHANGED targets
          ELSE /\ cliPc' = "startPublicTunnels"
               /\ targets' = resolved.targets
               /\ UNCHANGED heap
    /\ UNCHANGED <<args, tunnelList, opened, closedTunnels, cliLog>>
    /\ UNCHANGED <<child, tunnels, onSignalPending, sigCount>>
    /\ UNCHANGED <<devConfig, envs, thrown, steps, envOut>>
    /\ UNCHANGED <<lifeVars, wdVars, idVars, loaderVars>>

\* Mutant of StopPublicTunnels: no tunnel is closed.
StopPublicTunnelsNone(list) == {}

\* stopPublicTunnels(list): close() is called on every tunnel of the list.
StopPublicTunnels(list) == {list[i].name : i \in 1..Len(list)}

\* One turn of the loop of startPublicTunnels: start(target) resolves with a
\* public URL ("url"), resolves without one ("nourl") or rejects ("reject").
\* After the last target the list is returned and runCli publishes the URLs;
\* on a failure the tunnels opened so far are closed and the error rejects
\* runCli.
StartTunnel(outcome) ==
    /\ cliPc = "startPublicTunnels"
    /\ Len(opened) < Len(targets)
    /\ LET target == targets[Len(opened) + 1]
           now == Append(opened, [name |-> target,
                                  publicUrl |-> TunnelUrl(target)])
       IN IF outcome = "url"
          THEN /\ opened' = now
               /\ IF Len(now) = Len(targets)
                  THEN /\ tunnelList' = now
                       /\ heap' = [heap EXCEPT ![envs[1].publicUrls] =
                              Merge(Emptied(@),
                                    [name \in {now[i].name :
                                                  i \in 1..Len(now)}
                                        |-> TunnelUrl(name)])]
                       /\ tunnels' = "open"
                       /\ cliPc' = "flags"
                  ELSE UNCHANGED <<tunnelList, heap, tunnels, cliPc>>
               /\ UNCHANGED closedTunnels
          ELSE /\ closedTunnels' = closedTunnels \cup StopPublicTunnels(opened)
               /\ cliPc' = "rejected"
               /\ UNCHANGED <<opened, tunnelList, heap, tunnels>>
    /\ UNCHANGED <<args, targets, cliLog>>
    /\ UNCHANGED <<child, onSignalPending, sigCount>>
    /\ UNCHANGED <<devConfig, envs, thrown, steps, envOut>>
    /\ UNCHANGED <<lifeVars, wdVars, idVars, loaderVars>>

\* Mutant of AfterExpose: --up-only is not looked at.
AfterExposeNoUpOnly(seedOk, watchdog) ==
    /\ cliPc = "flags"
    /\ IF HasFlag(args, <<45, 45, 109, 105, 103, 114, 97, 116, 101>>) \/ HasFlag(args, <<45, 45, 115, 101, 101, 100>>)
       THEN /\ cliPc' = IF /\ ~HasFlag(args, <<45, 45, 109, 105, 103, 114, 97, 116, 101>>)
                           /\ ~seedOk
                        THEN "exit1" ELSE "exit0"
            /\ cliLog' = IF HasFlag(args, <<45, 45, 109, 105, 103, 114, 97, 116, 101>>) THEN cliLog
                         ELSE Append(cliLog, Call("exec", RunSeeder))
            /\ heap' = ClearedUrls
            /\ tunnelList' = <<>>
            /\ closedTunnels' = closedTunnels \cup StopPublicTunnels(tunnelList)
            /\ tunnels' = IF tunnelList = <<>> THEN tunnels ELSE "closed"
            /\ UNCHANGED wdVars
       ELSE /\ cliPc' = "interactive"
            /\ IF watchdog
               THEN /\ cliLog' = cliLog \o <<Call("spawnWatchdog", ""),
                                             Call("startHeartbeat", "")>>
                    /\ SpawnWatchdogCall
                    /\ StartHeartbeatCall
                    /\ UNCHANGED <<sleepLeft, sigPending, lastCheck>>
               ELSE UNCHANGED <<cliLog, wdVars>>
            /\ UNCHANGED <<heap, tunnelList, tunnels, closedTunnels>>
    /\ UNCHANGED <<args, targets, opened>>
    /\ UNCHANGED <<child, onSignalPending, sigCount>>
    /\ UNCHANGED <<devConfig, envs, thrown, steps, envOut>>
    /\ UNCHANGED <<lifeVars, idVars, loaderVars>>

\* After the --expose block: --migrate exits; --seed executes the seeder
\* command and exits with its outcome; --up-only exits; each after
\* cleaning the tunnels up.  Anything else goes on to interactive mode,
\* with the watchdog and the heartbeat when the watchdog option is on.
AfterExpose(seedOk, watchdog) ==
    /\ cliPc = "flags"
    /\ IF \E flag \in {<<45, 45, 109, 105, 103, 114, 97, 116, 101>>, <<45, 45, 115, 101, 101, 100>>, <<45, 45, 117, 112, 45, 111, 110, 108, 121>>} :
              HasFlag(args, flag)
       THEN /\ cliPc' = IF /\ ~HasFlag(args, <<45, 45, 109, 105, 103, 114, 97, 116, 101>>)
                           /\ HasFlag(args, <<45, 45, 115, 101, 101, 100>>)
                           /\ ~seedOk
                        THEN "exit1" ELSE "exit0"
            /\ cliLog' = IF /\ ~HasFlag(args, <<45, 45, 109, 105, 103, 114, 97, 116, 101>>)
                            /\ HasFlag(args, <<45, 45, 115, 101, 101, 100>>)
                         THEN Append(cliLog, Call("exec", RunSeeder))
                         ELSE cliLog
            /\ heap' = ClearedUrls
            /\ tunnelList' = <<>>
            /\ closedTunnels' = closedTunnels \cup StopPublicTunnels(tunnelList)
            /\ tunnels' = IF tunnelList = <<>> THEN tunnels ELSE "closed"
            /\ UNCHANGED wdVars
       ELSE /\ cliPc' = "interactive"
            /\ IF watchdog
               THEN /\ cliLog' = cliLog \o <<Call("spawnWatchdog", ""),
                                             Call("startHeartbeat", "")>>
                    /\ SpawnWatchdogCall
                    /\ StartHeartbeatCall
                    /\ UNCHANGED <<sleepLeft, sigPending, lastCheck>>
               ELSE UNCHANGED <<cliLog, wdVars>>
            /\ UNCHANGED <<heap, tunnelList, tunnels, closedTunnels>>
    /\ UNCHANGED <<args, targets, opened>>
    /\ UNCHANGED <<child, onSignalPending, sigCount>>
    /\ UNCHANGED <<devConfig, envs, thrown, steps, envOut>>
    /\ UNCHANGED <<lifeVars, idVars, loaderVars>>

\* The argument vectors: none, --expose, --expose=api, --expose=api,redis,
\* --expose=redis, --expose=web, --expose=, --expose api,
\* --expose --up-only, --up-only --expose=api, --up-only, --watch,
\* --expose --seed, --down, --reset, --down --reset, --help --down,
\* --down --migrate, --migrate, --seed, --seed --up-only.
ArgVectors ==
    {<<>>,
     <<Expose>>,
     <<<<45, 45, 101, 120, 112, 111, 115, 101, 61, 97, 112, 105>>>>,
     <<<<45, 45, 101, 120, 112, 111, 115, 101, 61, 97, 112, 105, 44, 114, 101, 100, 105, 115>>>>,
     <<<<45, 45, 101, 120, 112, 111, 115, 101, 61, 114, 101, 100, 105, 115>>>>,
     <<<<45, 45, 101, 120, 112, 111, 115, 101, 61, 119, 101, 98>>>>,
     <<<<45, 45, 101, 120, 112, 111, 115, 101, 61>>>>,
     <<Expose, Api>>,
     <<Expose, <<45, 45, 117, 112, 45, 111, 110, 108, 121>>>>,
     <<<<45, 45, 117, 112, 45, 111, 110, 108, 121>>, <<45, 45, 101, 120, 112, 111, 115, 101, 61, 97, 112, 105>>>>,
     <<<<45, 45, 117, 112, 45, 111, 110, 108, 121>>>>,
     <<<<45, 45, 119, 97, 116, 99, 104>>>>,
     <<Expose, <<45, 45, 115, 101, 101, 100>>>>,
     <<<<45, 45, 100, 111, 119, 110>>>>,
     <<<<45, 45, 114, 101, 115, 101, 116>>>>,
     <<<<45, 45, 100, 111, 119, 110>>, <<45, 45, 114, 101, 115, 101, 116>>>>,
     <<<<45, 45, 104, 101, 108, 112>>, <<45, 45, 100, 111, 119, 110>>>>,
     <<<<45, 45, 100, 111, 119, 110>>, <<45, 45, 109, 105, 103, 114, 97, 116, 101>>>>,
     <<<<45, 45, 109, 105, 103, 114, 97, 116, 101>>>>,
     <<<<45, 45, 115, 101, 101, 100>>>>,
     <<<<45, 45, 115, 101, 101, 100>>, <<45, 45, 117, 112, 45, 111, 110, 108, 121>>>>}

\* Valid configs with redis and the app api, each exposable or not, with
\* or without db, which is not, and with no seed or the seed command
\* given (run in seed.cwd).
ExposeConfigs ==
    {[PlainConfig EXCEPT !.services = <<r>> \o d, !.apps = <<a>>,
                         !.seed = sd] :
        sd \in {"none", RunSeeder, "bun run db:seed"},
        r \in [name : {Redis}, port : {6379}, secondaryPort : {NoNumber},
               serviceName : {Undefined}, docker : {"none"},
               expose : BOOLEAN],
        d \in {<<>>, <<[name |-> Db, port |-> 5432, secondaryPort |-> 9000,
                        serviceName |-> Undefined, docker |-> "raw",
                        expose |-> FALSE]>>},
        a \in [name : {Api}, port : {3000}, devCommand : {TRUE},
               expose : BOOLEAN]}

ExposeInit ==
    /\ LifeQuiet
    /\ cliPc = "runCli"
    /\ child = "none"
    /\ tunnels = "none"
    /\ onSignalPending = 0
    /\ sigCount = 0
    /\ root \in FacRoots
    /\ idOptions = [projectPrefix |-> <<109>>, suffix |-> Undefined,
                    worktreeIsolation |-> TRUE]
    /\ identity = NoIdentity
    /\ devConfig \in ExposeConfigs
    /\ envs = <<NewEnvironment(devConfig, Undefined, root, 1)>>
    /\ heap = <<EmptyMap>>
    /\ thrown = <<>>
    /\ steps = ConstructionSteps
    /\ envOut = NoEnvOut
    /\ args \in ArgVectors
    /\ targets = <<>>
    /\ tunnelList = <<>>
    /\ opened = <<>>
    /\ closedTunnels = {}
    /\ cliLog = <<>>
    /\ LoaderIdle

ExposeNext ==
    \/ \E startOk \in BOOLEAN : RunCliStart(startOk)
    \/ ExposeResolve
    \/ \E outcome \in {"url", "nourl", "reject"} : StartTunnel(outcome)
    \/ \E seedOk, watchdog \in BOOLEAN : AfterExpose(seedOk, watchdog)

ExposeSpec == ExposeInit /\ [][ExposeNext]_vars

\* ------------------------------------------------------------------------
\* One CLI run after another on the same project, and the monitor an
\* interactive run leaves behind: runCli stops its heartbeat when it ends
\* and never stops the watchdog.
\* ------------------------------------------------------------------------

\* Interactive mode reaches runCommand: the dev-server command is spawned.
RunCommand ==
    /\ cliPc = "interactive"
    /\ cliPc' = "runCommand"
    /\ child' = "running"
    /\ UNCHANGED <<tunnels, onSignalPending, sigCount>>
    /\ UNCHANGED <<lifeVars, wdVars, facVars>>

\* The CLI is invoked again, in a new process, with the arguments a.
NewRun(a) ==
    /\ cliPc \in {"exit0", "exit1", "rejected", "exited"}
    /\ cliPc' = "runCli"
    /\ child' = "none"
    /\ args' = a
    /\ cliLog' = <<>>
    /\ UNCHANGED <<tunnels, onSignalPending, sigCount>>
    /\ UNCHANGED <<targets, tunnelList, opened, closedTunnels>>
    /\ UNCHANGED <<devConfig, envs, heap, thrown, steps, envOut>>
    /\ UNCHANGED <<lifeVars, wdVars, idVars, loaderVars>>

\* The argument vectors of the runs: none, --up-only.
RerunArgs == {<<>>, <<<<45, 45, 117, 112, 45, 111, 110, 108, 121>>>>}

\* The first run begins on a project with redis and the app api, nothing
\* exposed, with the stack down and no monitor.
RerunInit ==
    /\ ExposeInit
    /\ args \in RerunArgs
    /\ root = [dirName |-> <<97>>, worktreeName |-> Null]
    /\ devConfig.seed = "none"
    /\ Len(devConfig.services) = 1
    /\ ~devConfig.services[1].expose
    /\ ~devConfig.apps[1].expose

\* The runs use the default of the watchdog option, which is on.
RerunNext ==
    \/ \E startOk \in BOOLEAN : RunCliStart(startOk)
    \/ ExposeResolve
    \/ AfterExpose(TRUE, TRUE)
    \/ RunCommand
    \/ \E ok \in BOOLEAN : ChildClose(ok)
    \/ CliAfterRun
    \/ CliExit
    \/ \E a \in RerunArgs : NewRun(a)
    \/ \E p \in Pids : MonitorStart(p)
    \/ \E p \in Pids : WatchdogCheck(p)
    \/ \E t \in Timers : HeartbeatFire(t)
    \/ Tick

RerunSpec == RerunInit /\ [][RerunNext]_vars

\* ------------------------------------------------------------------------
\* Claims about --expose
\* ------------------------------------------------------------------------

\* runCli passed its --expose block without exiting or rejecting.
PastExposeBlock == cliPc \in {"flags", "interactive"}

TunnelNames == {tunnelList[i].name : i \in 1..Len(tunnelList)}

ExposableNames ==
    LET entries == devConfig.services \o devConfig.apps
    IN {entries[i].name : i \in {j \in 1..Len(entries) : entries[j].expose}}

\* C30 (as claimed): past the --expose block, with --expose=<names> naming
\* only targets that have expose: true there is a tunnel for each named
\* target and the environment's public URLs are those of the tunnels; with
\* bare --expose the same holds for all targets that have expose: true.
C30_ExposeStartsTunnels ==
    PastExposeBlock =>
        /\ \A names \in {<<Api>>, <<Redis>>, <<Api, Redis>>} :
               (/\ \E i \in 1..Len(args) :
                       args[i] = Expose \o <<61>> \o
                           (IF Len(names) = 1 THEN names[1]
                            ELSE names[1] \o <<44>> \o names[2])
                /\ \A j \in 1..Len(names) : names[j] \in ExposableNames) =>
                   /\ TunnelNames = {names[j] : j \in 1..Len(names)}
                   /\ DOMAIN PublicUrlsOf(1) = TunnelNames
        /\ (args \in {<<Expose>>, <<Expose, <<45, 45, 117, 112, 45, 111, 110, 108, 121>>>>}
                /\ ExposableNames # {}) =>
               /\ TunnelNames = ExposableNames
               /\ DOMAIN PublicUrlsOf(1) = TunnelNames

LoadedConfigs ==
    {[version |-> 1],
     [PlainConfig EXCEPT !.projectPrefix = <<>>],
     [projectPrefix |-> <<109>>],
     [PlainConfig EXCEPT !.services = <<>>],
     PlainConfig}

\* !config?.projectPrefix || !config?.services
LooksInvalid(config) ==
    \/ "projectPrefix" \notin DOMAIN config
    \/ config.projectPrefix = <<>>
    \/ "services" \notin DOMAIN config

LoadThrew == [op |-> "loadDevEnv", threw |-> TRUE, env |-> 0]

LoadReturned(env) == [op |-> "loadDevEnv", threw |-> FALSE, env |-> env]

\* loadDevEnv({ reload }) up to its await: a cache hit returns at once, a
\* missing config file throws, otherwise the call is suspended in import().
LoadDevEnv(c, reload, found) ==
    /\ loads[c] = "free"
    /\ IF ~reload /\ cachedEnv # 0
       THEN /\ loadOut' = LoadReturned(cachedEnv)
            /\ served' = served \cup {cachedEnv}
            /\ UNCHANGED loads
       ELSE IF ~found
       THEN /\ loadOut' = LoadThrew
            /\ UNCHANGED <<loads, served>>
       ELSE /\ loads' = [loads EXCEPT ![c] =
                            IF reload THEN "importReload" ELSE "import"]
            /\ UNCHANGED <<loadOut, served>>
    /\ UNCHANGED <<cachedEnv, envCount, loadedSinceClear>>
    /\ UNCHANGED <<lifeVars, wdVars, cliVars, idVars, instVars, exposeVars>>

\* loadDevEnv after `await import(configPath)`: the import rejected, or it
\* gave a module whose default export is checked, turned into an
\* environment and cached.
LoadResume(c, imported, config) ==
    /\ loads[c] \in {"import", "importReload"}
    /\ loads' = [loads EXCEPT ![c] = "free"]
    /\ IF \/ ~imported
          \/ LooksInvalid(config)
          \/ AssertValidConfig(config) # <<>>
       THEN /\ loadOut' = LoadThrew
            /\ UNCHANGED <<cachedEnv, envCount, loadedSinceClear, served>>
       ELSE /\ envCount < MaxLoadedEnvs
            /\ envCount' = envCount + 1
            /\ cachedEnv' = envCount + 1
            /\ loadOut' = LoadReturned(envCount + 1)
            /\ loadedSinceClear' = TRUE
            /\ served' = IF loads[c] = "importReload" \/ ~loadedSinceClear
                         THEN {envCount + 1} ELSE served
    /\ UNCHANGED <<lifeVars, wdVars, cliVars, idVars, instVars, exposeVars>>

GetDevEnv ==
    /\ loadOut' = [op |-> "getDevEnv", threw |-> cachedEnv = 0,
                   env |-> cachedEnv]
    /\ UNCHANGED <<cachedEnv, loads, envCount, loadedSinceClear, served>>
    /\ UNCHANGED <<lifeVars, wdVars, cliVars, idVars, instVars, exposeVars>>

ClearDevEnvCache ==
    /\ cachedEnv' = 0
    /\ loadedSinceClear' = FALSE
    /\ served' = {}
    /\ loadOut' = NoLoadOut
    /\ UNCHANGED <<loads, envCount>>
    /\ UNCHANGED <<lifeVars, wdVars, cliVars, idVars, instVars, exposeVars>>

LoaderInit ==
    /\ NothingRunning
    /\ FacIdle

LoaderNext ==
    \/ \E c \in 1..MaxLoads, reload \in BOOLEAN, found \in BOOLEAN :
           LoadDevEnv(c, reload, found)
    \/ \E c \in 1..MaxLoads, imported \in BOOLEAN, config \in LoadedConfigs :
           LoadResume(c, imported, config)
    \/ GetDevEnv
    \/ ClearDevEnvCache

LoaderSpec == LoaderInit /\ [][LoaderNext]_vars

\* C32a: getDevEnv throws exactly when no loadDevEnv call has completed
\* successfully since the last clearDevEnvCache.
C32_GetThrowsUnlessLoaded ==
    [][GetDevEnv => (loadOut'.threw <=> ~loadedSinceClear)]_vars

\* C32b: a loadDevEnv call that fails leaves the cache as it was.
C32_FailedLoadKeepsCache ==
    [][(loadOut' = LoadThrew /\ loadOut'.op = "loadDevEnv"
            /\ (loads' # loads \/ loadOut' # loadOut))
          => cachedEnv' = cachedEnv]_vars

\* C32 (as claimed, the part on repeated calls): after the first
\* successful load, and until the cache is cleared or reloaded, every
\* loadDevEnv call without reload returns the one same environment.
C32_SameCachedEnvironment == Cardinality(served) <= 1

\* C33: no service is health-checked more than maxAttempts times, and a
\* service that used its attempts up is not waited for any longer; the wait
\* has ended well only with every health-checked service healthy, and it
\* has failed on health only with a service that used up its own attempts
\* without passing.
C33_ServiceWaitBounded ==
    /\ \A s \in Services : attempts[s] <= MaxAttempts
    /\ pc = "waitHealthy" =>
           \A s \in HealthChecked(cfg) \ passed : attempts[s] < MaxAttempts
    /\ (InStart /\ Has("waitHealthy", "end")) =>
           HealthChecked(cfg) \subseteq passed
    /\ error.kind = "health" =>
           /\ pc = "rejected"
           /\ \E s \in error.who :
                  /\ s \in HealthChecked(cfg) \ passed
                  /\ attempts[s] = MaxAttempts

\* One service passed its check and the wait still failed on the other.
C33_Witness ==
    /\ error.kind = "health"
    /\ passed # {}
    /\ \E s \in Services : attempts[s] = MaxAttempts

\* ------------------------------------------------------------------------
\* start() on configs with several apps and nothing else to do: the dev
\* servers part of start (startDevServers, waitForDevServers, hooks).
\* ------------------------------------------------------------------------
ServerConfigs ==
    [prisma : {FALSE},
     nUser : {0},
     hooks : SUBSET {"beforeServers", "afterServers"},
     seed : {"none"},
     nApps : 1..MaxServerApps,
     nHealthCheck : {0}]

ServersInit ==
    /\ impl \in {"modular", "flat"}
    /\ cfg \in ServerConfigs
    /\ op = "none"
    /\ opts = NoOpts
    /\ pc = "idle"
    /\ awaiting = FALSE
    /\ log = <<>>
    /\ containers = "down"
    /\ passed = {}
    /\ attempts = [s \in Services |-> 0]
    /\ migResults = <<>>
    /\ spawned = <<>>
    /\ ready = {}
    /\ error = NoError
    /\ hbFile = HbMissing
    /\ WdIdle
    /\ CliIdle
    /\ FacIdle

ServersNext ==
    \/ \E o \in StartOpts(impl, cfg) : Start(o)
    \/ \E h \in StartHooks : InvokeHook(h)
    \/ \E h \in StartHooks, ok \in BOOLEAN : SettleHook(h, ok)
    \/ \E productionBuild, ok \in BOOLEAN : BuildApps(productionBuild, ok)
    \/ SpawnApp
    \/ \E a \in 1..MaxServerApps, ok \in BOOLEAN : AppWait(a, ok)
    \/ Return

ServersSpec == ServersInit /\ [][ServersNext]_vars

\* C34: in a start() call the apps are spawned one after the other in
\* declaration order, no readiness wait is logged before every app has been
\* spawned, the waits may end in any order, and the afterServers hook
\* begins only after every app has responded.
C34_ServersSequentialThenConcurrent ==
    InStart =>
        /\ \A i \in 1..Len(spawned) : spawned[i] = i
        /\ \A i, j \in LogIdx :
               (i < j /\ log[i][1] = "spawn" /\ log[j][1] = "spawn") =>
                   log[i][3] <= log[j][3]
        /\ \A j \in LogIdx :
               log[j][1] = "waitServers" =>
                   /\ Len(spawned) = cfg.nApps
                   /\ \A i \in LogIdx : log[i][1] = "spawn" => i < j
        /\ HasPhase("afterServers") =>
               /\ ready = Apps(cfg)
               /\ \A a \in Apps(cfg) : \E i \in LogIdx :
                      log[i] = Ev("waitServers", "end", a)

\* Two apps, the second one ready before the first, afterServers begun.
C34_Witness ==
    /\ InStart
    /\ cfg.nApps = 2
    /\ Has("afterServers", "begin")
    /\ \E i, j \in LogIdx :
           /\ i < j
           /\ log[i] = Ev("waitServers", "end", 2)
           /\ log[j] = Ev("waitServers", "end", 1)

\* ------------------------------------------------------------------------
\* Claims about the flags of runCli
\* ------------------------------------------------------------------------
Called(name) == \E i \in 1..Len(cliLog) : cliLog[i].call = name

CalledWith(name, arg) == \E i \in 1..Len(cliLog) : cliLog[i] = Call(name, arg)

\* runCli has come to its end: an exit, an error, or interactive mode.
RunOver == cliPc \in {"exit0", "exit1", "rejected", "interactive"}

Down == HasFlag(args, <<45, 45, 100, 111, 119, 110>>)

Reset == HasFlag(args, <<45, 45, 114, 101, 115, 101, 116>>)

ExitsAfterStart ==
    \E flag \in {<<45, 45, 109, 105, 103, 114, 97, 116, 101>>, <<45, 45, 115, 101, 101, 100>>, <<45, 45, 117, 112, 45, 111, 110, 108, 121>>} : HasFlag(args, flag)

\* Neither --help nor an unknown flag ends the run before any flag acts.
FlagsAct == ~HasFlag(args, <<45, 45, 104, 101, 108, 112>>) /\ GetUnknownFlags(args) = <<>>

NoInteractiveMode ==
    /\ ~Called("spawnWatchdog")
    /\ ~Called("startHeartbeat")
    /\ cliPc # "interactive"
    /\ child = "none"

\* C35 (as claimed): a run with --down or --reset calls stop, with
\* removeVolumes for --reset, and never start; a run with --migrate, --seed
\* or --up-only exits after start({startServers: false}) and never spawns
\* the watchdog, starts the heartbeat or spawns dev servers.
C35_EarlyExitFlags ==
    /\ (Down \/ Reset) =>
           /\ ~Called("start")
           /\ RunOver => Called("stop")
           /\ (RunOver /\ Reset) => CalledWith("stop", "removeVolumes")
    /\ ExitsAfterStart =>
           /\ NoInteractiveMode
           /\ RunOver => Called("start")

\* C35 (amended): the same for runs that --help or an unknown flag does
\* not end first, with --down taking precedence over --reset (no volume
\* removal when both are given) and both over --migrate, --seed and
\* --up-only; in every run with --down or --reset start is never called,
\* and in every run with --migrate, --seed or --up-only interactive mode
\* is never entered.
C35_EarlyExitFlagsByPrecedence ==
    /\ (Down \/ Reset) => ~Called("start")
    /\ ExitsAfterStart => NoInteractiveMode
    /\ (FlagsAct /\ RunOver /\ (Down \/ Reset)) =>
           /\ cliPc = "exit0"
           /\ cliLog = <<Call("stop", IF Down THEN "keepVolumes"
                                      ELSE "removeVolumes")>>
    /\ (FlagsAct /\ RunOver /\ ~Down /\ ~Reset /\ ExitsAfterStart) =>
           /\ cliLog[1].call = "start"
           /\ ~Called("stop")

\* Runs that ended with --reset alone and with --up-only alone.
C35_Witness ==
    /\ RunOver
    /\ \/ args = <<<<45, 45, 114, 101, 115, 101, 116>>>> /\ CalledWith("stop", "removeVolumes")
       \/ args = <<<<45, 45, 117, 112, 45, 111, 110, 108, 121>>>> /\ cliPc = "exit0" /\ Called("start")

\* C36 (as claimed): in a run with --seed that reaches its exit, start was
\* called with skipSeed, the seeder configured in the dev config was then
\* executed exactly once, and a failed seeder gave a non-zero exit code.
C36_SeedFlagRunsConfiguredSeeder ==
    (FlagsAct /\ ~Down /\ ~Reset /\ HasFlag(args, <<45, 45, 115, 101, 101, 100>>)
        /\ ~HasFlag(args, <<45, 45, 109, 105, 103, 114, 97, 116, 101>>) /\ devConfig.seed # "none") =>
        /\ Called("start") => cliLog[1] = Call("start", "skipSeed")
        /\ cliPc \in {"exit0", "exit1"} =>
               \/ ~Called("exec")
               \/ /\ Len(cliLog) = 2
                  /\ cliLog[2] = Call("exec", devConfig.seed)
        /\ cliPc = "exit0" => Called("exec")

\* A heartbeat timer of the foreground process is live.
EmitterRunning == \E t \in Timers : timerLeft[t] # -1

\* C37: while a heartbeat timer of the foreground process is running with
\* an interval shorter than the idle timeout, no monitor exits on idle and
\* no step takes the stack down.
C37_NoTearDownWhileHeartbeating ==
    [][(EmitterRunning /\ HbInterval < IdleTimeout) =>
          /\ containers' = containers
          /\ \A p \in Pids :
                 monitors'[p] = "exitedIdle" => monitors[p] = "exitedIdle"]_vars

\* A monitor has just read a heartbeat written by the running emitter and
\* has gone back to sleep.
C37_Witness ==
    /\ EmitterRunning
    /\ HbInterval < IdleTimeout
    /\ lastCheck = "read"
    /\ hbFile \in Ages
    /\ containers = "running"
    /\ \E p \in Pids : monitors[p] = "running" /\ sleepLeft[p] = CheckInterval

\* A CLI run is past env.start() and has not reached its end: it is in its
\* --expose block, at its flags, or in interactive mode with the dev-server
\* command running.
RunInProgress ==
    cliPc \in {"expose", "startPublicTunnels", "flags", "interactive", "runCommand"}

\* C38 (as claimed): while a CLI run for the project is in progress no
\* monitor exits on idle, that is, none issues the tear-down; in particular
\* not a monitor left by an earlier run between the new run's env.start()
\* and its first heartbeat write.
C38_NoTearDownDuringRun ==
    [][RunInProgress =>
          \A p \in Pids :
              monitors'[p] = "exitedIdle" => monitors[p] = "exitedIdle"]_vars

\* C39 (as claimed): in every reachable state of the protocol, a monitor
\* that is alive, has completed its start-up write and has not been sent a
\* signal finds the PID file holding its own PID; and the clean-up of a
\* monitor that was told to stop never deletes a PID file that holds the
\* PID of another monitor.
C39_PidFileNamesLiveMonitor ==
    /\ [](\A p \in Pids :
             (monitors[p] = "running" /\ p \notin sigPending) => pidFile = p)
    /\ [][\A p \in Pids :
             (p \in sigPending /\ monitors[p] = "running"
                               /\ monitors'[p] = "exitedSignal"
                               /\ pidFile \in Pids \ {p}) =>
                 pidFile' = pidFile]_vars

\* C40 (as claimed): in every environment created from a config that
\* validateConfig accepts, with a port offset in 0..99, every computed port
\* (service port, secondary port and app port) is in 1..65535.
C40_ComputedPortsInRange ==
    \A i \in Instances :
        envs[i].portOffset \in 0..99 =>
            \A k \in DOMAIN envs[i].ports : envs[i].ports[k] \in 1..65535

====
